---- MODULE Spec2Model ----
(***************************************************************************)
(* Model of parse-mediawiki-sql: the insertion-stream driver               *)
(* (iterate_sql_insertions), the row parser generated by                   *)
(* impl_row_from_sql!, the scalar parsers of from_sql.rs and the error     *)
(* type of error.rs.                                                       *)
(*                                                                         *)
(* A byte buffer is a sequence of one-character strings.  A cursor into a  *)
(* buffer s is an index i in 1..Len(s)+1: the remaining input is           *)
(* s[i..Len(s)].  Every parser takes (s, i) and returns a result record    *)
(*   [k |-> "Ok" | "Error" | "Failure" | "Incomplete", i, v, e]            *)
(* which is nom's IResult: k = "Ok" carries the rest i and the value v,    *)
(* the other three are nom::Err::{Error, Failure, Incomplete}.             *)
(***************************************************************************)
EXTENDS Integers, Sequences, FiniteSets, TLC

(***************************************************************************)
(* Bytes and byte strings                                                  *)
(***************************************************************************)
Digits == {"0", "1", "2", "3", "4", "5", "6", "7", "8", "9"}

Lowercase == {"a", "b", "c", "d", "e", "f", "g", "h", "i", "j", "k", "l", "m",
              "n", "o", "p", "q", "r", "s", "t", "u", "v", "w", "x", "y", "z"}

\* The bytes accepted by nom's multispace0: space, tab, CR, LF.
Multispace == {" ", "\t", "\r", "\n"}

\* A byte that is not part of any valid UTF-8 sequence (0xFF).
BadByte == "xFF"

\* The two bytes of a two-byte UTF-8 sequence (0xC3 0xA9): the first alone,
\* or the second without the first, is not valid UTF-8.
LeadByte == "xC3"

ContinuationByte == "xA9"

\* The vertical tab 0x0B, which has no string literal of its own.
VT == "x0B"

\* The no-break space U+00A0, the bytes 0xC2 0xA0.
NBSP == <<"xC2", "xA0">>

\* The bytes of the model that start a sequence of two bytes, and those
\* that end one: any of the first followed by any of the second is a
\* character.
LeadBytes == {LeadByte, NBSP[1]}

ContinuationBytes == {ContinuationByte, NBSP[2]}

\* The characters of one byte with the Unicode property White_Space: tab,
\* LF, vertical tab, form feed, CR and space.
WhiteSpace == {"\t", "\n", VT, "\f", "\r", " "}

\* U+FFFD REPLACEMENT CHARACTER, the bytes 0xEF 0xBF 0xBD.
REPLACEMENT_CHARACTER == <<"xEF", "xBF", "xBD">>

\* The back-quote byte 0x60, which has no string literal of its own.
BQ == "BQ"

INSERT_INTO == <<"I", "N", "S", "E", "R", "T", " ", "I", "N", "T", "O">>

INSERT_INTO_BQ == INSERT_INTO \o <<" ", BQ>>

BQ_VALUES == <<BQ, " ", "V", "A", "L", "U", "E", "S", " ">>

NULL_TOKEN == <<"N", "U", "L", "L">>

DigitVal(c) ==
    CASE c = "0" -> 0 [] c = "1" -> 1 [] c = "2" -> 2 [] c = "3" -> 3
      [] c = "4" -> 4 [] c = "5" -> 5 [] c = "6" -> 6 [] c = "7" -> 7
      [] c = "8" -> 8 [] c = "9" -> 9

DigitChar(v) == <<"0", "1", "2", "3", "4", "5", "6", "7", "8", "9">>[v + 1]

Min(a, b) == IF a <= b THEN a ELSE b

Max(a, b) == IF a >= b THEN a ELSE b

\* The bytes of s from index i to the end.
Rest(s, i) == SubSeq(s, i, Len(s))

(***************************************************************************)
(* error.rs: Error and ParseTypeContext                                    *)
(*   t = "ErrorKind":         pos, kind                                    *)
(*   t = "ErrorWithContexts": ctx, a sequence of frames                    *)
(*   a frame is [alt, pos, labels]; alt = FALSE is ParseTypeContext::Single*)
(*   (one label), alt = TRUE is ParseTypeContext::Alternatives.            *)
(***************************************************************************)
NoError == [t |-> "None", pos |-> 0, kind |-> "", ctx |-> <<>>]

ErrorKind(pos, kind) == [t |-> "ErrorKind", pos |-> pos, kind |-> kind, ctx |-> <<>>]

ErrorWithContexts(frames) == [t |-> "ErrorWithContexts", pos |-> 0, kind |-> "", ctx |-> frames]

Single(pos, label) == [alt |-> FALSE, pos |-> pos, labels |-> <<label>>]

Alternatives(pos, labels) == [alt |-> TRUE, pos |-> pos, labels |-> labels]

\* ParseTypeContext::push: self absorbs other.  A Single self takes the
\* position of other, an Alternatives self keeps its own.
push(self, other) ==
    IF self.alt
    THEN Alternatives(self.pos, self.labels \o other.labels)
    ELSE Alternatives(other.pos, self.labels \o other.labels)

from_error_kind(pos, kind) == ErrorKind(pos, kind)

\* ParseError::append: bubble up ErrorWithContexts and skip ErrorKind.
append(pos, kind, other) ==
    IF other.t = "ErrorKind" THEN from_error_kind(pos, kind) ELSE other

\* ParseError::or.  Both stacks are popped before the test, so a popped
\* frame is dropped when the other stack is empty.
or(self, other) ==
    IF self.t = "ErrorKind"
    THEN other
    ELSE IF other.t = "ErrorKind"
         THEN self
         ELSE IF Len(self.ctx) > 0 /\ Len(other.ctx) > 0
              THEN ErrorWithContexts(
                       SubSeq(other.ctx, 1, Len(other.ctx) - 1)
                       \o <<push(self.ctx[Len(self.ctx)], other.ctx[Len(other.ctx)])>>)
              ELSE ErrorWithContexts(SubSeq(other.ctx, 1, Len(other.ctx) - 1))

\* add_context that starts a new stack whatever it is given.
add_context_Replace(pos, label, other) == ErrorWithContexts(<<Single(pos, label)>>)

\* ContextError::add_context
add_context(pos, label, other) ==
    IF other.t = "ErrorKind"
    THEN ErrorWithContexts(<<Single(pos, label)>>)
    ELSE ErrorWithContexts(Append(other.ctx, Single(pos, label)))

(***************************************************************************)
(* nom results and the combinators the crate is built from                 *)
(***************************************************************************)
NoValue == <<>>

Ok(i, v) == [k |-> "Ok", i |-> i, v |-> v, e |-> NoError]

Err(k, e) == [k |-> k, i |-> 0, v |-> NoValue, e |-> e]

Incomplete == Err("Incomplete", NoError)

\* nom::error::context(label, p) applied to the result r of p run at i.
context(label, i, r) ==
    IF r.k \in {"Error", "Failure"} THEN Err(r.k, add_context(i, label, r.e)) ELSE r

\* nom::combinator::cut
cut(r) == IF r.k = "Error" THEN Err("Failure", r.e) ELSE r

\* nom::combinator::opt: a recoverable error becomes None and consumes nothing.
\* None is <<>>, Some(v) is <<v>>.
opt(i, r) ==
    IF r.k = "Ok" THEN Ok(r.i, <<r.v>>)
    ELSE IF r.k = "Error" THEN Ok(i, <<>>)
    ELSE r

\* Index of the first byte of s at or after i that is in set S; 0 when none.
RECURSIVE FirstIn(_, _, _)
FirstIn(s, i, S) ==
    IF i > Len(s) THEN 0
    ELSE IF s[i] \in S THEN i
    ELSE FirstIn(s, i + 1, S)

\* Index of the first byte of s at or after i that is not in set S; 0 when none.
RECURSIVE FirstNotIn(_, _, _)
FirstNotIn(s, i, S) ==
    IF i > Len(s) THEN 0
    ELSE IF s[i] \notin S THEN i
    ELSE FirstNotIn(s, i + 1, S)

\* nom::bytes::streaming::tag
tag(t, s, i) ==
    LET avail == Len(s) - i + 1
        n == Min(Len(t), avail)
    IN  IF \E j \in 1..n : s[i + j - 1] # t[j]
        THEN Err("Error", ErrorKind(i, "Tag"))
        ELSE IF avail >= Len(t)
             THEN Ok(i + Len(t), t)
             ELSE Incomplete

\* nom::character::streaming::char
char(c, s, i) ==
    IF i > Len(s) THEN Incomplete
    ELSE IF s[i] = c THEN Ok(i + 1, c)
    ELSE Err("Error", ErrorKind(i, "Char"))

\* nom::character::streaming::one_of
one_of(S, s, i) ==
    IF i > Len(s) THEN Incomplete
    ELSE IF s[i] \in S THEN Ok(i + 1, s[i])
    ELSE Err("Error", ErrorKind(i, "OneOf"))

\* digit1 as in nom::character::complete: a run of digits that reaches the
\* end of the input is a match.
digit1_Complete(s, i) ==
    LET j == FirstNotIn(s, i, Digits)
    IN  IF i > Len(s) THEN Err("Error", ErrorKind(i, "Digit"))
        ELSE IF j = 0 THEN Ok(Len(s) + 1, SubSeq(s, i, Len(s)))
        ELSE IF j = i THEN Err("Error", ErrorKind(i, "Digit"))
        ELSE Ok(j, SubSeq(s, i, j - 1))

\* nom::character::streaming::digit1: a non-empty run of digits that is
\* followed by at least one more byte.
digit1(s, i) ==
    LET j == FirstNotIn(s, i, Digits)
    IN  IF j = 0 THEN Incomplete
        ELSE IF j = i THEN Err("Error", ErrorKind(i, "Digit"))
        ELSE Ok(j, SubSeq(s, i, j - 1))

\* nom::bytes::streaming::take_while: a possibly empty run, followed by at
\* least one more byte.
take_while(S, s, i) ==
    LET j == FirstNotIn(s, i, S)
    IN  IF j = 0 THEN Incomplete ELSE Ok(j, SubSeq(s, i, j - 1))

\* nom::character::streaming::multispace0
multispace0(s, i) == take_while(Multispace, s, i)

\* nom::bytes::streaming::is_not: a non-empty run of bytes outside S that is
\* followed by a byte of S.
is_not(S, s, i) ==
    LET j == FirstIn(s, i, S)
    IN  IF j = 0 THEN Incomplete
        ELSE IF j = i THEN Err("Error", ErrorKind(i, "IsNot"))
        ELSE Ok(j, SubSeq(s, i, j - 1))

\* nom::branch::alt over two parsers whose results at i are r1 and r2:
\* r2 is looked at only when r1 is a recoverable error.
alt2(i, r1, r2) ==
    IF r1.k # "Error" THEN r1
    ELSE IF r2.k # "Error" THEN r2
    ELSE Err("Error", append(i, "Alt", or(r1.e, r2.e)))

\* nom::combinator::map_res: r is the result of the inner parser run at i,
\* good tells whether the conversion of r.v succeeds, v is the converted value.
map_res(i, r, good, v) ==
    IF r.k # "Ok" THEN r
    ELSE IF good THEN Ok(r.i, v)
    ELSE Err("Error", from_error_kind(i, "MapRes"))

\* nom::combinator::recognize: the bytes the parser run at i has consumed.
recognize(s, i, r) == IF r.k = "Ok" THEN Ok(r.i, SubSeq(s, i, r.i - 1)) ELSE r

\* nom::sequence::terminated: r2 is the result of the second parser, run
\* where the first one (result r1) stopped; the value is the first one's.
terminated(r1, r2) == IF r2.k = "Ok" THEN Ok(r2.i, r1.v) ELSE r2

\* Sequencing as in nom's tuple and preceded: the next parser runs where the
\* previous one, whose result is r, stopped; a failure of r is the result.
then_tag(r, t, s) == IF r.k = "Ok" THEN tag(t, s, r.i) ELSE r

then_char(r, c, s) == IF r.k = "Ok" THEN char(c, s, r.i) ELSE r

then_digit1(r, s) == IF r.k = "Ok" THEN digit1(s, r.i) ELSE r

then_take_while(r, S, s) == IF r.k = "Ok" THEN take_while(S, s, r.i) ELSE r

then_opt_tag(r, t, s) == IF r.k = "Ok" THEN opt(r.i, tag(t, s, r.i)) ELSE r

then_opt_multispace0(r, s) == IF r.k = "Ok" THEN opt(r.i, multispace0(s, r.i)) ELSE r

then_opt_is_not(r, S, s) == IF r.k = "Ok" THEN opt(r.i, is_not(S, s, r.i)) ELSE r

terminated_tag(r, t, s) == terminated(r, then_tag(r, t, s))

terminated_char(r, c, s) == terminated(r, then_char(r, c, s))

\* map(opt(..), |opt| opt.unwrap_or_default())
unwrap_or_default(r) ==
    IF r.k = "Ok" THEN Ok(r.i, IF r.v = <<>> THEN <<>> ELSE r.v[1]) ELSE r

(***************************************************************************)
(* from_sql.rs: the scalar parsers                                         *)
(***************************************************************************)
\* map(.., |b| b == '1')
is_one(r) == IF r.k = "Ok" THEN Ok(r.i, r.v = "1") ELSE r

\* impl FromSql for bool
bool_from_sql(s, i) == context("1 or 0", i, is_one(one_of({"0", "1"}, s, i)))

IntTypes == {"u8", "u16", "u32", "u64", "i8", "i16", "i32", "i64"}

IsSigned(T) == T \in {"i8", "i16", "i32", "i64"}

\* The decimal digits of the largest magnitude the type holds on the
\* non-negative side (neg = FALSE) and on the negative side (neg = TRUE).
MaxMagnitude(T, neg) ==
    CASE T = "u8"  -> <<"2", "5", "5">>
      [] T = "u16" -> <<"6", "5", "5", "3", "5">>
      [] T = "u32" -> <<"4", "2", "9", "4", "9", "6", "7", "2", "9", "5">>
      [] T = "u64" -> <<"1", "8", "4", "4", "6", "7", "4", "4", "0", "7",
                        "3", "7", "0", "9", "5", "5", "1", "6", "1", "5">>
      [] T = "i8"  -> IF neg THEN <<"1", "2", "8">> ELSE <<"1", "2", "7">>
      [] T = "i16" -> IF neg THEN <<"3", "2", "7", "6", "8">>
                             ELSE <<"3", "2", "7", "6", "7">>
      [] T = "i32" -> IF neg THEN <<"2", "1", "4", "7", "4", "8", "3", "6", "4", "8">>
                             ELSE <<"2", "1", "4", "7", "4", "8", "3", "6", "4", "7">>
      [] T = "i64" -> IF neg THEN <<"9", "2", "2", "3", "3", "7", "2", "0", "3", "6",
                                    "8", "5", "4", "7", "7", "5", "8", "0", "8">>
                             ELSE <<"9", "2", "2", "3", "3", "7", "2", "0", "3", "6",
                                    "8", "5", "4", "7", "7", "5", "8", "0", "7">>

\* A digit string without its leading zeros.
RECURSIVE StripZeros(_)
StripZeros(d) ==
    IF Len(d) > 0 /\ d[1] = "0" THEN StripZeros(Tail(d)) ELSE d

\* a <= b for digit strings of equal length.
RECURSIVE LexLeq(_, _)
LexLeq(a, b) ==
    IF Len(a) = 0 THEN TRUE
    ELSE IF DigitVal(a[1]) # DigitVal(b[1]) THEN DigitVal(a[1]) < DigitVal(b[1])
    ELSE LexLeq(Tail(a), Tail(b))

\* Len(a) < Len(b), or Len(a) = Len(b) and a <= b digit by digit.
ShorterOrLeq(a, b) == Len(a) < Len(b) \/ (Len(a) = Len(b) /\ LexLeq(a, b))

\* a <= b as numbers, for digit strings; b has no leading zero.
DecLeq(a, b) == ShorterOrLeq(StripZeros(a), b)

\* The value of a digit string of at most MaxIntDigits significant digits.
RECURSIVE DecValue(_)
DecValue(d) ==
    IF Len(d) = 0 THEN 0 ELSE DecValue(SubSeq(d, 1, Len(d) - 1)) * 10 + DigitVal(d[Len(d)])

\* A parse that never fails: every recognized numeral has a value.
ParseFits_Always(T, num) == TRUE

\* str::parse::<T>() on the bytes matched by the recognizer, an optional
\* `-` and at least one digit: it fails when the value is out of range.
ParseFits(T, num) ==
    IF Len(num) > 0 /\ num[1] = "-"
    THEN DecLeq(Tail(num), MaxMagnitude(T, TRUE))
    ELSE DecLeq(num, MaxMagnitude(T, FALSE))

\* The digit strings with more significant digits than this many are wide.
MaxIntDigits == 9

IsWide(d) == Len(StripZeros(d)) > MaxIntDigits

\* The parsed number.  A number of at most MaxIntDigits significant digits
\* is an integer of the model; a wide one is kept as its decimal numeral,
\* the sign and the digits without leading zeros.
ParseValue(num) ==
    IF Len(num) > 0 /\ num[1] = "-"
    THEN (IF IsWide(Tail(num))
          THEN <<"-">> \o StripZeros(Tail(num))
          ELSE 0 - DecValue(Tail(num)))
    ELSE (IF IsWide(num) THEN StripZeros(num) ELSE DecValue(num))

\* unsigned_int!: recognize(digit1); signed_int!:
\* recognize(tuple((opt(char('-')), digit1)))
int_recognizer(T, s, i) ==
    IF IsSigned(T)
    THEN recognize(s, i, then_digit1(opt(i, char("-", s, i)), s))
    ELSE recognize(s, i, digit1(s, i))

\* map_res($implementation, |num| .. s.parse() ..) on the recognizer's result r
parse_number(T, i, r) ==
    map_res(i, r, r.k = "Ok" /\ ParseFits(T, r.v),
            IF r.k = "Ok" /\ ParseFits(T, r.v) THEN ParseValue(r.v) ELSE 0)

\* number_impl!
number_from_sql(T, s, i) ==
    context("number (" \o T \o ")", i, parse_number(T, i, int_recognizer(T, s, i)))

\* impl FromSql for &[u8]
raw_bytes_from_sql(s, i) ==
    context("byte string with no escape sequences", i,
            terminated_tag(
                unwrap_or_default(then_opt_is_not(tag(<<"'">>, s, i), {"'"}, s)),
                <<"'">>, s))

\* The bytes from the n-th on are whole UTF-8 sequences.
RECURSIVE Utf8From(_, _)
Utf8From(bytes, n) ==
    IF n > Len(bytes) THEN TRUE
    ELSE IF bytes[n] \in {BadByte} \cup ContinuationBytes THEN FALSE
    ELSE IF bytes[n] \in LeadBytes
    THEN n < Len(bytes) /\ bytes[n + 1] \in ContinuationBytes /\ Utf8From(bytes, n + 2)
    ELSE Utf8From(bytes, n + 1)

\* std::str::from_utf8 / String::from_utf8 succeed
IsUtf8(bytes) == Utf8From(bytes, 1)

\* A conversion that takes any bytes for text.
from_utf8_Unchecked(i, r) == r

\* map_res(.., std::str::from_utf8) and map_res(.., String::from_utf8)
from_utf8(i, r) == map_res(i, r, r.k = "Ok" /\ IsUtf8(r.v), r.v)

\* impl FromSql for &str
str_from_sql(s, i) ==
    context("string with no escape sequences", i, from_utf8(i, raw_bytes_from_sql(s, i)))

EscapeChars == {"0", "b", "t", "n", "r", "Z", "\\", "'", "\""}

\* A transform that keeps the byte after the backslash as it is.
Unescape_Verbatim(b) == b

\* The match in the transform closure of impl FromSql for Vec<u8>.
Unescape(b) ==
    CASE b = "0" -> "x00"
      [] b = "b" -> "x08"
      [] b = "t" -> "\t"
      [] b = "n" -> "\n"
      [] b = "r" -> "\r"
      [] b = "Z" -> "x1A"
      [] b = "\\" -> "\\"
      [] b = "'" -> "'"
      [] b = "\"" -> "\""

\* nom::bytes::streaming::escaped_transform(is_not("\\\"'"), '\\',
\* map(one_of("0btnrZ\\'\""), ...)): the loop, with index the cursor and res
\* the bytes decoded so far.  At a byte that is neither normal nor the
\* control character the streaming version returns what it has, which is
\* nothing when that byte is the first.
RECURSIVE escaped_transform(_, _, _)
escaped_transform(s, index, res) ==
    IF index > Len(s) THEN Incomplete
    ELSE LET n == is_not({"\\", "\"", "'"}, s, index)
         IN  IF n.k = "Ok"
             THEN (IF n.i > Len(s) THEN Incomplete
                   ELSE escaped_transform(s, n.i, res \o n.v))
             ELSE IF n.k = "Error"
             THEN (IF s[index] = "\\"
                   THEN (IF index + 1 > Len(s) THEN Incomplete
                         ELSE LET t == one_of(EscapeChars, s, index + 1)
                              IN  IF t.k = "Ok"
                                  THEN (IF t.i > Len(s) THEN Incomplete
                                        ELSE escaped_transform(s, t.i,
                                                 Append(res, Unescape(t.v))))
                                  ELSE t)
                   ELSE Ok(index, res))
             ELSE n

then_opt_escaped_transform(r, s) ==
    IF r.k = "Ok" THEN opt(r.i, escaped_transform(s, r.i, <<>>)) ELSE r

\* vec_from_sql that ends the string at the first quote, as the parser of
\* strings without escape sequences does.
vec_from_sql_Raw(s, i) ==
    context("byte string", i,
            terminated_tag(
                unwrap_or_default(then_opt_is_not(tag(<<"'">>, s, i), {"'"}, s)),
                <<"'">>, s))

\* impl FromSql for Vec<u8>
vec_from_sql(s, i) ==
    context("byte string", i,
            terminated_tag(
                unwrap_or_default(then_opt_escaped_transform(tag(<<"'">>, s, i), s)),
                <<"'">>, s))

\* impl FromSql for String
string_from_sql(s, i) == context("string", i, from_utf8(i, vec_from_sql(s, i)))

\* impl FromSql for ()
unit_from_sql(s, i) == context("unit type", i, tag(NULL_TOKEN, s, i))

(***************************************************************************)
(* from_sql.rs: float!, the floating-point numbers                         *)
(***************************************************************************)
then_opt_digit1(r, s) == IF r.k = "Ok" THEN opt(r.i, digit1(s, r.i)) ELSE r

\* opt(pair(char('.'), opt(digit1))) after the digits whose result is r
then_opt_fraction(r, s) ==
    IF r.k = "Ok" THEN opt(r.i, then_opt_digit1(char(".", s, r.i), s)) ELSE r

\* opt(alt((char('+'), char('-'))))
opt_sign(s, i) == opt(i, alt2(i, char("+", s, i), char("-", s, i)))

then_opt_sign(r, s) == IF r.k = "Ok" THEN opt_sign(s, r.i) ELSE r

\* alt((tuple((digit1, opt(pair(char('.'), opt(digit1))))),
\*      tuple((char('.'), digit1))))
float_digits(s, i) ==
    alt2(i, then_opt_fraction(digit1(s, i), s), then_digit1(char(".", s, i), s))

then_float_digits(r, s) == IF r.k = "Ok" THEN float_digits(s, r.i) ELSE r

then_cut_digit1(r, s) == IF r.k = "Ok" THEN cut(digit1(s, r.i)) ELSE r

\* tuple((alt((char('e'), char('E'))), opt(alt((char('+'), char('-')))),
\*        cut(digit1)))
exponent(s, i) ==
    then_cut_digit1(then_opt_sign(alt2(i, char("e", s, i), char("E", s, i)), s), s)

then_opt_exponent(r, s) == IF r.k = "Ok" THEN opt(r.i, exponent(s, r.i)) ELSE r

\* nom::number::streaming::recognize_float
recognize_float(s, i) ==
    recognize(s, i, then_opt_exponent(then_float_digits(opt_sign(s, i), s), s))

\* The parts of a recognized float: its sign, its digits before and after
\* the point, and its exponent.
Unsigned(num) == IF Len(num) > 0 /\ num[1] \in {"+", "-"} THEN Tail(num) ELSE num

ExponentAt(num) == FirstIn(num, 1, {"e", "E"})

PointAt(num) == FirstIn(num, 1, {"."})

Mantissa(num) == IF ExponentAt(num) = 0 THEN num ELSE SubSeq(num, 1, ExponentAt(num) - 1)

ExponentText(num) ==
    IF ExponentAt(num) = 0 THEN <<>> ELSE SubSeq(num, ExponentAt(num) + 1, Len(num))

\* The exponent as a number; one of more than six digits is as good as one
\* of seven nines.
ExponentSize(d) == IF Len(StripZeros(d)) > 6 THEN 9999999 ELSE DecValue(d)

ExponentValue(e) ==
    IF Len(e) = 0 THEN 0
    ELSE IF e[1] = "-" THEN 0 - ExponentSize(Tail(e))
    ELSE ExponentSize(Unsigned(e))

IntegerDigits(m) == IF PointAt(m) = 0 THEN m ELSE SubSeq(m, 1, PointAt(m) - 1)

FractionDigits(m) == IF PointAt(m) = 0 THEN <<>> ELSE SubSeq(m, PointAt(m) + 1, Len(m))

(***************************************************************************)
(* Natural numbers of any size, for the rounding of a decimal to a float:  *)
(* a number is the sequence of its digits in base Limb, the least         *)
(* significant first and the last one not 0; zero is the empty sequence.   *)
(***************************************************************************)
Limb == 2 ^ 15

Highest(S) == CHOOSE n \in S : \A m \in S : m <= n

\* a without the zero limbs at its end
Trim(a) == SubSeq(a, 1, Highest({0} \cup {n \in 1..Len(a) : a[n] # 0}))

LimbAt(a, n) == IF n <= Len(a) THEN a[n] ELSE 0

\* The limbs lo..hi of a sum that is carried upwards, and after them the
\* carry out of the last one; Step(n, carry) is the sum at the n-th limb.
\* The range is done by halves, the carry out of the lower half going into
\* the upper one.
RECURSIVE Carried(_, _, _, _)
Carried(Step(_, _), lo, hi, carry) ==
    IF lo > hi THEN <<carry>>
    ELSE IF lo = hi THEN <<Step(lo, carry) % Limb, Step(lo, carry) \div Limb>>
    ELSE LET mid == (lo + hi) \div 2
             lower == Carried(Step, lo, mid, carry)
         IN  SubSeq(lower, 1, Len(lower) - 1) \o Carried(Step, mid + 1, hi, lower[Len(lower)])

\* a + b
Add(a, b) ==
    IF Len(a) = 0 THEN b
    ELSE IF Len(b) = 0 THEN a
    ELSE
    Trim(Carried(LAMBDA n, carry : LimbAt(a, n) + LimbAt(b, n) + carry,
                 1, Max(Len(a), Len(b)), 0))

\* a - b for a >= b: a plus the complement of b, whose carry out is dropped
Sub(a, b) ==
    IF Len(b) = 0 THEN a
    ELSE
    Trim(SubSeq(Carried(LAMBDA n, carry : a[n] + (Limb - 1 - LimbAt(b, n)) + carry,
                        1, Len(a), 1), 1, Len(a)))

\* a * k + carry for k and carry below Limb
MulSmall(a, k, carry) ==
    IF Len(a) = 0 THEN Trim(<<carry>>)
    ELSE Trim(Carried(LAMBDA n, c : a[n] * k + c, 1, Len(a), carry))

\* The quotient limbs lo..hi and the remainder of a by k, for k below Limb,
\* from the limb hi down; rem is what the limbs above have left.
RECURSIVE DivSmallOn(_, _, _, _, _)
DivSmallOn(a, k, lo, hi, rem) ==
    IF lo > hi THEN [q |-> <<>>, r |-> rem]
    ELSE IF lo = hi
    THEN [q |-> <<(rem * Limb + a[lo]) \div k>>, r |-> (rem * Limb + a[lo]) % k]
    ELSE LET mid == (lo + hi) \div 2
             upper == DivSmallOn(a, k, mid + 1, hi, rem)
             lower == DivSmallOn(a, k, lo, mid, upper.r)
         IN  [q |-> lower.q \o upper.q, r |-> lower.r]

DivSmall(a, k) == Trim(DivSmallOn(a, k, 1, Len(a), 0).q)

ModSmall(a, k) == DivSmallOn(a, k, 1, Len(a), 0).r

\* a <= b: by length, then by the highest limb in which they differ
Differ(a, b) == {n \in 1..Len(a) : a[n] # b[n]}

Leq(a, b) ==
    \/ Len(a) < Len(b)
    \/ /\ Len(a) = Len(b)
       /\ Differ(a, b) # {} => a[Highest(Differ(a, b))] < b[Highest(Differ(a, b))]

\* a * 2^n
Shl(a, n) ==
    IF Len(a) = 0 THEN <<>>
    ELSE [k \in 1..(n \div 15) |-> 0] \o MulSmall(a, 2 ^ (n % 15), 0)

\* a * Limb^n
LimbShift(a, n) == IF Len(a) = 0 THEN <<>> ELSE [k \in 1..n |-> 0] \o a

RECURSIVE SmallBitLen(_)
SmallBitLen(k) == IF k = 0 THEN 0 ELSE 1 + SmallBitLen(k \div 2)

\* The number of binary digits of a.
BitLen(a) == IF Len(a) = 0 THEN 0 ELSE 15 * (Len(a) - 1) + SmallBitLen(a[Len(a)])

IsOdd(a) == Len(a) > 0 /\ a[1] % 2 = 1

\* a times the limbs lo..hi of b at their places, by halves
RECURSIVE MulOn(_, _, _, _)
MulOn(a, b, lo, hi) ==
    IF lo > hi THEN <<>>
    ELSE IF lo = hi THEN LimbShift(MulSmall(a, b[lo], 0), lo - 1)
    ELSE Add(MulOn(a, b, lo, (lo + hi) \div 2), MulOn(a, b, (lo + hi) \div 2 + 1, hi))

\* a * b
Mul(a, b) == IF Len(a) = 0 \/ Len(b) = 0 THEN <<>> ELSE MulOn(a, b, 1, Len(b))

\* 10^n, by squaring
RECURSIVE Pow10(_)
Pow10(n) ==
    IF n < 5 THEN <<10 ^ n>>
    ELSE IF n % 2 = 1 THEN MulSmall(Pow10(n - 1), 10, 0)
    ELSE Mul(Pow10(n \div 2), Pow10(n \div 2))

\* The number a string of decimal digits denotes, by halves.
RECURSIVE FromDigits(_)
FromDigits(d) ==
    IF Len(d) < 5 THEN Trim(<<DecValue(d)>>)
    ELSE Add(Mul(FromDigits(SubSeq(d, 1, Len(d) \div 2)), Pow10(Len(d) - Len(d) \div 2)),
             FromDigits(SubSeq(d, Len(d) \div 2 + 1, Len(d))))

\* The decimal digits of a number.
RECURSIVE DecimalDigits(_)
DecimalDigits(a) ==
    IF Len(a) = 0 THEN <<>>
    ELSE DecimalDigits(DivSmall(a, 10)) \o <<DigitChar(ModSmall(a, 10))>>

\* The largest of the 32 numbers base, base + step, .. whose product with
\* d is at most a, for base * d <= a.
Largest(a, d, base, step) ==
    base + step * Highest({j \in 0..31 : Leq(MulSmall(d, base + j * step, 0), a)})

\* The largest k below Limb with k * d <= a: its three digits in base 32,
\* from the first down.
FindLimb(a, d) == Largest(a, d, Largest(a, d, Largest(a, d, 0, 1024), 32), 1)

\* The quotient q and the remainder r of a by d, for a quotient of at most
\* n limbs: one limb at a time, from the n-th down.
RECURSIVE DivLimbs(_, _, _)
DivLimbs(a, d, n) ==
    IF n = 0 \/ Len(a) = 0 THEN [q |-> [j \in 1..n |-> 0], r |-> a]
    ELSE LET k == FindLimb(a, LimbShift(d, n - 1))
             rest == DivLimbs(Sub(a, MulSmall(LimbShift(d, n - 1), k, 0)), d, n - 1)
         IN  [q |-> rest.q \o <<k>>, r |-> rest.r]

\* The quotient and the remainder of a by d, for a quotient below 2^60.
Div(a, d) == [q |-> Trim(DivLimbs(a, d, 4).q), r |-> DivLimbs(a, d, 4).r]

(***************************************************************************)
(* str::parse::<f32>() and str::parse::<f64>(): the float nearest to the   *)
(* decimal number, a tie going to the even significand.                    *)
(***************************************************************************)
\* The binary digits of the significand, the exponent of the last digit of
\* the smallest float, and the exponent of the first power of two that is
\* too large for the type.
FloatFormat(T) ==
    IF T = "f32" THEN [p |-> 24, emin |-> 0 - 149, emax |-> 128]
    ELSE [p |-> 53, emin |-> 0 - 1074, emax |-> 1024]

\* A float as a value: zero (the sign of a zero is not kept, -0.0 == 0.0),
\* an infinity, or the odd natural number with the decimal digits
\* significand times two to the exponent.
Zero == [class |-> "zero", neg |-> FALSE, significand |-> <<>>, exponent |-> 0]

Infinity(neg) == [class |-> "inf", neg |-> neg, significand |-> <<>>, exponent |-> 0]

RECURSIVE Finite(_, _, _)
Finite(neg, m, e) ==
    IF IsOdd(m)
    THEN [class |-> "finite", neg |-> neg, significand |-> DecimalDigits(m), exponent |-> e]
    ELSE IF m[1] % 256 = 0 THEN Finite(neg, DivSmall(m, 256), e + 8)
    ELSE Finite(neg, DivSmall(m, 2), e + 1)

\* The float for the rounded significand q at the exponent b.
Rounded(F, neg, q, b) ==
    IF Len(q) = 0 THEN Zero
    ELSE IF BitLen(q) + b > F.emax THEN Infinity(neg)
    ELSE Finite(neg, q, b)

\* q + r / d at the exponent b, rounded to a whole significand: up when
\* the rest is more than a half, or a half and q is odd.
RoundUp(q, twice, d) == ~Leq(twice, d) \/ (twice = d /\ IsOdd(q))

Round(F, neg, q, r, d, b) ==
    Rounded(F, neg, IF RoundUp(q, MulSmall(r, 2, 0), d) THEN Add(q, <<1>>) ELSE q, b)

\* A quotient of more than p binary digits is taken at the next exponent.
Fit(F, neg, qr, d, b) ==
    IF BitLen(qr.q) > F.p
    THEN Round(F, neg, DivSmall(qr.q, 2),
               IF IsOdd(qr.q) THEN Add(qr.r, d) ELSE qr.r, Shl(d, 1), b + 1)
    ELSE Round(F, neg, qr.q, qr.r, d, b)

\* num / den as a significand of p binary digits at the exponent b.
Scaled(F, neg, num, den, b) ==
    IF b >= 0
    THEN Fit(F, neg, Div(num, Shl(den, b)), Shl(den, b), b)
    ELSE Fit(F, neg, Div(Shl(num, 0 - b), den), den, b)

\* The float nearest to num / den, for num and den above zero: the
\* exponent is the one that gives the quotient p or p + 1 binary digits,
\* or the least exponent of the type when that is larger.
Nearest(F, neg, num, den) ==
    Scaled(F, neg, num, den, Max(BitLen(num) - BitLen(den) - F.p, F.emin))

\* The float nearest to d * 10^e for the decimal digits d, which have no
\* leading zero.  A number of 10^(emax / 3) or more is beyond the largest
\* float, and one below 10^(emin / 3 - 1) is below half of the smallest.
FloatOf(F, neg, d, e) ==
    IF Len(d) = 0 THEN Zero
    ELSE IF 3 * (Len(d) + e - 1) >= F.emax THEN Infinity(neg)
    ELSE IF 3 * (Len(d) + e) <= F.emin - 3 THEN Zero
    ELSE IF e >= 0 THEN Nearest(F, neg, Mul(FromDigits(d), Pow10(e)), <<1>>)
    ELSE Nearest(F, neg, FromDigits(d), Pow10(0 - e))

\* str::parse::<T>() on a recognized float.
FloatValue(T, num) ==
    FloatOf(FloatFormat(T),
            Len(num) > 0 /\ num[1] = "-",
            StripZeros(IntegerDigits(Mantissa(Unsigned(num)))
                       \o FractionDigits(Mantissa(Unsigned(num)))),
            ExponentValue(ExponentText(Unsigned(num)))
                - Len(FractionDigits(Mantissa(Unsigned(num)))))

\* map_res(recognize_float, |num| .. s.parse() ..): every recognized float
\* parses.
parse_float(T, i, r) ==
    map_res(i, r, TRUE, IF r.k = "Ok" THEN FloatValue(T, r.v) ELSE NoValue)

\* number_impl! for f32 and f64
float_from_sql(T, s, i) ==
    context("number (" \o T \o ")", i, parse_float(T, i, recognize_float(s, i)))

FloatTypes == {"f32", "f64"}

NotNanTypes == {"NotNan<f32>", "NotNan<f64>"}

NotNanInner(T) == IF T = "NotNan<f32>" THEN "f32" ELSE "f64"

\* The compiler that builds the crate, by the text its stringify! gives
\* for a type with generic arguments: the tokens joined, or with a space
\* between them.
VARIABLE rustc

Toolchains == {"joined", "spaced"}

\* stringify!($type_name) for the type NotNan<$t>
stringify(T) ==
    IF rustc = "spaced" THEN "NotNan < " \o NotNanInner(T) \o " >" ELSE T

\* number_impl! for NotNan<$t>: map(<$t>::from_sql, NotNan::new_unchecked)
not_nan_from_sql(T, s, i) ==
    context("number (" \o stringify(T) \o ")", i, float_from_sql(NotNanInner(T), s, i))

(***************************************************************************)
(* field_types.rs: the wrappers made by impl_wrapper!, and the dispatch    *)
(* `<$type_name>::from_sql` of a field type named T                        *)
(***************************************************************************)
WrapperTypes == {"PageId", "PageNamespace", "PageTitle", "ChangeTagDefinitionId"}

Wrapped(T) ==
    CASE T = "PageId" -> "u32"
      [] T = "PageNamespace" -> "i32"
      [] T = "PageTitle" -> "String"
      [] T = "ChangeTagDefinitionId" -> "u32"

OptionTypes ==
    {"Option<&str>", "Option<String>", "Option<u32>", "Option<ContentModel>",
     "Option<PageRestrictionsOld>", "Option<Timestamp>", "Option<Expiry>"}

OptionInner(T) ==
    CASE T = "Option<&str>" -> "&str"
      [] T = "Option<String>" -> "String"
      [] T = "Option<u32>" -> "u32"
      [] T = "Option<ContentModel>" -> "ContentModel"
      [] T = "Option<PageRestrictionsOld>" -> "PageRestrictionsOld"
      [] T = "Option<Timestamp>" -> "Timestamp"
      [] T = "Option<Expiry>" -> "Expiry"

\* map(<()>::from_sql, |_| None); None is <<>>.
to_none(r) == IF r.k = "Ok" THEN Ok(r.i, <<>>) ELSE r

\* map(T::from_sql, Some); Some(v) is <<v>>.
to_some(r) == IF r.k = "Ok" THEN Ok(r.i, <<r.v>>) ELSE r

\* option_from_sql without its second alternative.
option_from_sql_NullOnly(s, i, rT) ==
    context("optional type", i, context("\"NULL\"", i, to_none(unit_from_sql(s, i))))

\* impl FromSql for Option<T>, given the result rT of T::from_sql at i.
option_from_sql(s, i, rT) ==
    context("optional type", i,
            alt2(i, context("\"NULL\"", i, to_none(unit_from_sql(s, i))), to_some(rT)))

(***************************************************************************)
(* field_types.rs: the enumerations                                        *)
(***************************************************************************)
EnumTypes ==
    {"PageType", "PageAction", "ProtectionLevel", "ContentModel", "MediaType", "MajorMime"}

\* The string patterns of the match in TryFrom<&str> for PageType and in
\* From<&str> for the other enumerations, with the variant of each, in the
\* order of the match arms.
EnumTable(T) ==
    CASE T = "PageType" ->
             << [name |-> <<"p", "a", "g", "e">>, variant |-> "Page"],
                [name |-> <<"s", "u", "b", "c", "a", "t">>, variant |-> "Subcat"],
                [name |-> <<"f", "i", "l", "e">>, variant |-> "File"] >>
      [] T = "PageAction" ->
             << [name |-> <<"e", "d", "i", "t">>, variant |-> "Edit"],
                [name |-> <<"m", "o", "v", "e">>, variant |-> "Move"],
                [name |-> <<"r", "e", "p", "l", "y">>, variant |-> "Reply"],
                [name |-> <<"u", "p", "l", "o", "a", "d">>, variant |-> "Upload"] >>
      [] T = "ProtectionLevel" ->
             << [name |-> <<"a", "u", "t", "o", "c", "o", "n", "f", "i", "r", "m", "e", "d">>, variant |-> "Autoconfirmed"],
                [name |-> <<"e", "x", "t", "e", "n", "d", "e", "d", "c", "o", "n", "f", "i", "r", "m", "e", "d">>, variant |-> "ExtendedConfirmed"],
                [name |-> <<"t", "e", "m", "p", "l", "a", "t", "e", "e", "d", "i", "t", "o", "r">>, variant |-> "TemplateEditor"],
                [name |-> <<"s", "y", "s", "o", "p">>, variant |-> "Sysop"],
                [name |-> <<"e", "d", "i", "t", "p", "r", "o", "t", "e", "c", "t", "e", "d">>, variant |-> "EditProtected"],
                [name |-> <<"e", "d", "i", "t", "s", "e", "m", "i", "p", "r", "o", "t", "e", "c", "t", "e", "d">>, variant |-> "EditSemiProtected"],
                [name |-> <<>>, variant |-> "None"] >>
      [] T = "ContentModel" ->
             << [name |-> <<"w", "i", "k", "i", "t", "e", "x", "t">>, variant |-> "Wikitext"],
                [name |-> <<"S", "c", "r", "i", "b", "u", "n", "t", "o">>, variant |-> "Scribunto"],
                [name |-> <<"t", "e", "x", "t">>, variant |-> "Text"],
                [name |-> <<"c", "s", "s">>, variant |-> "Css"],
                [name |-> <<"s", "a", "n", "i", "t", "i", "z", "e", "d", "-", "c", "s", "s">>, variant |-> "SanitizedCss"],
                [name |-> <<"j", "a", "v", "a", "s", "c", "r", "i", "p", "t">>, variant |-> "JavaScript"],
                [name |-> <<"j", "s", "o", "n">>, variant |-> "Json"] >>
      [] T = "MediaType" ->
             << [name |-> <<"U", "N", "K", "N", "O", "W", "N">>, variant |-> "Unknown"],
                [name |-> <<"B", "I", "T", "M", "A", "P">>, variant |-> "Bitmap"],
                [name |-> <<"D", "R", "A", "W", "I", "N", "G">>, variant |-> "Drawing"],
                [name |-> <<"A", "U", "D", "I", "O">>, variant |-> "Audio"],
                [name |-> <<"V", "I", "D", "E", "O">>, variant |-> "Video"],
                [name |-> <<"M", "U", "L", "T", "I", "M", "E", "D", "I", "A">>, variant |-> "Multimedia"],
                [name |-> <<"O", "F", "F", "I", "C", "E">>, variant |-> "Office"],
                [name |-> <<"T", "E", "X", "T">>, variant |-> "Text"],
                [name |-> <<"E", "X", "E", "C", "U", "T", "A", "B", "L", "E">>, variant |-> "Executable"],
                [name |-> <<"A", "R", "C", "H", "I", "V", "E">>, variant |-> "Archive"],
                [name |-> <<"3", "D">>, variant |-> "ThreeDimensional"] >>
      [] T = "MajorMime" ->
             << [name |-> <<"u", "n", "k", "n", "o", "w", "n">>, variant |-> "Unknown"],
                [name |-> <<"a", "p", "p", "l", "i", "c", "a", "t", "i", "o", "n">>, variant |-> "Application"],
                [name |-> <<"a", "u", "d", "i", "o">>, variant |-> "Audio"],
                [name |-> <<"i", "m", "a", "g", "e">>, variant |-> "Image"],
                [name |-> <<"t", "e", "x", "t">>, variant |-> "Text"],
                [name |-> <<"v", "i", "d", "e", "o">>, variant |-> "Video"],
                [name |-> <<"m", "e", "s", "s", "a", "g", "e">>, variant |-> "Message"],
                [name |-> <<"m", "o", "d", "e", "l">>, variant |-> "Model"],
                [name |-> <<"m", "u", "l", "t", "i", "p", "a", "r", "t">>, variant |-> "Multipart"] >>

\* A variant without data, and the variant Other(s).
Variant(name) == [variant |-> name, lit |-> <<>>]

Other(str) == [variant |-> "Other", lit |-> str]

\* The string is one of the patterns of the match: string patterns match
\* byte for byte.
IsPattern(T, str) == \E n \in 1..Len(EnumTable(T)) : EnumTable(T)[n].name = str

Matched(T, str) ==
    Variant(EnumTable(T)[CHOOSE n \in 1..Len(EnumTable(T)) : EnumTable(T)[n].name = str].variant)

\* From<&str>: the arm `_ => Other(s)` takes every other string.
enum_from(T, str) == IF IsPattern(T, str) THEN Matched(T, str) ELSE Other(str)

\* map(<&str>::from_sql, T::from) on the result r of <&str>::from_sql
map_enum_from(T, r) == IF r.k = "Ok" THEN Ok(r.i, enum_from(T, r.v)) ELSE r

\* A conversion that falls through to Other(s) as the open enumerations do.
enum_try_from_Open(T, i, r) == map_enum_from(T, r)

\* map_res(<&str>::from_sql, PageType::try_from) on the result r of
\* <&str>::from_sql run at i: the arm `other => Err(other)`.
enum_try_from(T, i, r) ==
    map_res(i, r, r.k = "Ok" /\ IsPattern(T, r.v),
            IF r.k = "Ok" /\ IsPattern(T, r.v) THEN Matched(T, r.v) ELSE NoValue)

\* impl FromSql for PageType, PageAction, ProtectionLevel, ContentModel,
\* MediaType and MajorMime; PageAction adds no context.
enum_from_sql(T, s, i) ==
    CASE T = "PageType" -> context(T, i, enum_try_from(T, i, str_from_sql(s, i)))
      [] T = "PageAction" -> map_enum_from(T, str_from_sql(s, i))
      [] OTHER -> context(T, i, map_enum_from(T, str_from_sql(s, i)))

(***************************************************************************)
(* field_types.rs: PageRestrictionsOld                                     *)
(***************************************************************************)
\* Index of the last byte of str that is c; 0 when there is none.
RECURSIVE LastIndexOf(_, _, _)
LastIndexOf(str, c, n) ==
    IF n = 0 THEN 0
    ELSE IF str[n] = c THEN n
    ELSE LastIndexOf(str, c, n - 1)

\* str::split(sep): the substrings between the separators, at least one.
RECURSIVE split(_, _)
RECURSIVE split_at(_, _, _)
split(str, sep) == split_at(str, sep, FirstIn(str, 1, {sep}))

\* j is the index of the first separator of str, 0 when it has none.
split_at(str, sep, j) ==
    IF j = 0 THEN <<str>>
    ELSE <<SubSeq(str, 1, j - 1)>> \o split(SubSeq(str, j + 1, Len(str)), sep)

\* j is the index of the last separator of str, 0 when it has none:
\* what follows it comes first, what precedes it second.
rsplit_at(str, j) ==
    IF j = 0 THEN <<str>>
    ELSE <<SubSeq(str, j + 1, Len(str)), SubSeq(str, 1, j - 1)>>

\* str::rsplitn(2, sep), as the sequence of the items it yields.
rsplitn2(str, sep) == rsplit_at(str, LastIndexOf(str, sep, Len(str)))

\* .split(',').map(|l| l.into()).collect(): the levels of a level list.
levels(parts) == [n \in 1..Len(parts) |-> enum_from("ProtectionLevel", parts[n])]

\* A BTreeMap as the set of its entries.
Entry(key, val) == [key |-> key, val |-> val]

\* An insert that keeps the entry the map already has for the key.
insert_KeepFirst(map, e) ==
    IF \E x \in map : x.key = e.key THEN map ELSE map \cup {e}

\* BTreeMap::insert: the entry replaces the one of the same key.
insert(map, e) == {x \in map : x.key # e.key} \cup {e}

\* A restriction whose level list is taken as one level.
restriction_OneLevel(type_and_levels) ==
    Entry(IF Len(type_and_levels) = 2
          THEN enum_from("PageAction", type_and_levels[2])
          ELSE Variant("All"),
          <<enum_from("ProtectionLevel", type_and_levels[1])>>)

\* The closure over a restriction: type_and_levels holds the items of
\* restriction.rsplitn(2, '='); the first is the level list, the second, if
\* there is one, the action, which is PageAction::All otherwise.
restriction(type_and_levels) ==
    Entry(IF Len(type_and_levels) = 2
          THEN enum_from("PageAction", type_and_levels[2])
          ELSE Variant("All"),
          levels(split(type_and_levels[1], ",")))

\* .filter(|p| !p.is_empty()).map(..).collect() into the map: the parts in
\* order, the empty ones skipped.
RECURSIVE collect(_, _)
collect(parts, map) ==
    IF Len(parts) = 0 THEN map
    ELSE IF Len(parts[1]) = 0 THEN collect(Tail(parts), map)
    ELSE collect(Tail(parts), insert(map, restriction(rsplitn2(parts[1], "="))))

\* The closure of map_res: it returns Ok for every string.
restrictions(contents) == collect(split(contents, ":"), {})

map_restrictions(r) == IF r.k = "Ok" THEN Ok(r.i, restrictions(r.v)) ELSE r

\* impl FromSql for PageRestrictionsOld
page_restrictions_from_sql(s, i) ==
    context("PageRestrictionsOld", i, map_restrictions(str_from_sql(s, i)))

(***************************************************************************)
(* field_types.rs: Timestamp and Expiry.  The date-time parse is chrono's  *)
(* NaiveDateTime::parse_from_str with one of the two format strings.       *)
(***************************************************************************)
COMPACT == "%Y%m%d%H%M%S"

SPACED == "%Y-%m-%d %H:%M:%S"

\* The format the closure selects: the compact one for a string of 14
\* bytes, the spaced one for every other string.
FormatFor(str) == IF Len(str) = 14 THEN COMPACT ELSE SPACED

\* The state of a parse: whether it still succeeds, the index of the next
\* byte and the numbers read so far.
Scan(ok, i, nums) == [ok |-> ok, i |-> i, nums |-> nums]

\* The number of digits, at most width, of str from index i on.
RECURSIVE DigitRun(_, _, _)
DigitRun(str, i, width) ==
    IF width = 0 \/ i > Len(str) \/ str[i] \notin Digits THEN 0
    ELSE 1 + DigitRun(str, i + 1, width - 1)

\* str::trim_start: the index of the first character at or after i that
\* has not the property White_Space.  Of the characters of the model those
\* of WhiteSpace and the no-break space have it.
RECURSIVE trim_start(_, _)
trim_start(str, i) ==
    IF i <= Len(str) /\ str[i] \in WhiteSpace THEN trim_start(str, i + 1)
    ELSE IF i < Len(str) /\ <<str[i], str[i + 1]>> = NBSP THEN trim_start(str, i + 2)
    ELSE i

\* scan::number(s, 1, width) at index i: n is the length of the digit run.
\* sign is -1 for a number after `-`.
number_at(str, r, i, n, sign) ==
    IF n = 0 THEN Scan(FALSE, i, r.nums)
    ELSE Scan(TRUE, i + n, Append(r.nums, sign * DecValue(SubSeq(str, i, i + n - 1))))

\* A numeric item of two digits (%m %d %H %M %S): leading whitespace is
\* skipped, then one or two digits are read.
numeric_from(str, r, i) == number_at(str, r, i, DigitRun(str, i, 2), 1)

numeric(str, r) == IF r.ok THEN numeric_from(str, r, trim_start(str, r.i)) ELSE r

\* The number of digits of str from index i on, whatever their number.
RECURSIVE DigitsFrom(_, _)
DigitsFrom(str, i) ==
    IF i > Len(str) \/ str[i] \notin Digits THEN 0 ELSE 1 + DigitsFrom(str, i + 1)

\* The negative of the value of a digit string.
RECURSIVE NegValue(_)
NegValue(d) ==
    IF Len(d) = 0 THEN 0 ELSE NegValue(SubSeq(d, 1, Len(d) - 1)) * 10 - DigitVal(d[Len(d)])

\* scan::number(s, 1, usize::MAX) on the n digits after a sign at i - 1,
\* then Parsed::set_year: every digit is read, and a number that an i32
\* cannot hold is out of range.
signed_number_at(str, r, i, n, neg) ==
    IF n = 0 \/ ~DecLeq(SubSeq(str, i, i + n - 1), MaxMagnitude("i32", neg))
    THEN Scan(FALSE, i, r.nums)
    ELSE Scan(TRUE, i + n,
              Append(r.nums, IF neg THEN NegValue(SubSeq(str, i, i + n - 1))
                                    ELSE DecValue(SubSeq(str, i, i + n - 1))))

\* %Y: after a sign every digit that follows is read, without one at most
\* four.
year_from(str, r, i) ==
    IF i <= Len(str) /\ str[i] = "-"
    THEN signed_number_at(str, r, i + 1, DigitsFrom(str, i + 1), TRUE)
    ELSE IF i <= Len(str) /\ str[i] = "+"
    THEN signed_number_at(str, r, i + 1, DigitsFrom(str, i + 1), FALSE)
    ELSE number_at(str, r, i, DigitRun(str, i, 4), 1)

year(str, r) == IF r.ok THEN year_from(str, r, trim_start(str, r.i)) ELSE r

\* A literal of the format string: the next byte must be it.
literal(str, r, c) ==
    IF r.ok
    THEN (IF r.i <= Len(str) /\ str[r.i] = c
          THEN Scan(TRUE, r.i + 1, r.nums)
          ELSE Scan(FALSE, r.i, r.nums))
    ELSE r

\* A space of the format string: any whitespace there is, is skipped.
space(str, r) == IF r.ok THEN Scan(TRUE, trim_start(str, r.i), r.nums) ELSE r

\* Bytes left after the last item make the parse fail.
finished(str, r) == IF r.ok /\ r.i <= Len(str) THEN Scan(FALSE, r.i, r.nums) ELSE r

\* The items of the two format strings, applied in order.
scan_items(str, fmt) ==
    IF fmt = COMPACT
    THEN finished(str,
             numeric(str, numeric(str, numeric(str, numeric(str, numeric(str,
                 year(str, Scan(TRUE, 1, <<>>))))))))
    ELSE finished(str,
             numeric(str, literal(str, numeric(str, literal(str, numeric(str,
                 space(str, numeric(str, literal(str, numeric(str, literal(str,
                     year(str, Scan(TRUE, 1, <<>>)), "-")), "-")))), ":")), ":")))

IsLeapYear(y) == (y % 4 = 0 /\ y % 100 # 0) \/ y % 400 = 0

DaysInMonth(y, m) ==
    IF m = 2 THEN (IF IsLeapYear(y) THEN 29 ELSE 28)
    ELSE IF m \in {4, 6, 9, 11} THEN 30
    ELSE 31

\* The last and the first year of a NaiveDate.
MAX_YEAR == 262142

MIN_YEAR == 0 - 262143

\* Parsed::to_naive_datetime_with_offset: the numbers year, month, day,
\* hour, minute, second denote a date (NaiveDate::from_ymd_opt, which has
\* a range of years) and a time; second 60 is a leap second.
IsValidDateTime(n) ==
    /\ n[1] \in MIN_YEAR..MAX_YEAR
    /\ n[2] \in 1..12
    /\ n[3] \in 1..DaysInMonth(n[1], n[2])
    /\ n[4] \in 0..23
    /\ n[5] \in 0..59
    /\ n[6] \in 0..60

DateTime(n) ==
    [year |-> n[1], month |-> n[2], day |-> n[3],
     hour |-> n[4], minute |-> n[5], second |-> n[6]]

\* NaiveDateTime::parse_from_str, from the scan r of the items.
parsed_date_time(r) ==
    IF r.ok /\ IsValidDateTime(r.nums)
    THEN [ok |-> TRUE, val |-> DateTime(r.nums)]
    ELSE [ok |-> FALSE, val |-> NoValue]

parse_from_str(str, fmt) == parsed_date_time(scan_items(str, fmt))

\* map_res(<&str>::from_sql, closure) on the result r of <&str>::from_sql
\* run at i, p being what parse_from_str returns for the string.
map_res_timestamp(i, r, p) == map_res(i, r, p.ok, p.val)

parse_timestamp(i, r) ==
    map_res_timestamp(i, r,
        IF r.k = "Ok" THEN parse_from_str(r.v, FormatFor(r.v))
        ELSE [ok |-> FALSE, val |-> NoValue])

\* impl FromSql for Timestamp
timestamp_from_sql(s, i) ==
    context("Timestamp in yyyymmddhhmmss or yyyy-mm-dd hh:mm::ss format", i,
            parse_timestamp(i, str_from_sql(s, i)))

\* map(Timestamp::from_sql, Expiry::Timestamp)
to_expiry(r) == IF r.k = "Ok" THEN Ok(r.i, [variant |-> "Timestamp", at |-> r.v]) ELSE r

\* map(tag("'infinity'"), |_| Expiry::Infinity)
to_infinity(r) == IF r.k = "Ok" THEN Ok(r.i, [variant |-> "Infinity", at |-> NoValue]) ELSE r

\* impl FromSql for Expiry; the label of the second branch is the source's
\* with its quotation marks in ASCII.
expiry_from_sql(s, i) ==
    context("Expiry", i,
            alt2(i, to_expiry(timestamp_from_sql(s, i)),
                 context("\"infinity\"", i, to_infinity(tag(<<"'", "i", "n", "f", "i", "n", "i", "t", "y", "'">>, s, i)))))

RECURSIVE from_sql(_, _, _)
from_sql(T, s, i) ==
    CASE T \in IntTypes -> number_from_sql(T, s, i)
      [] T = "bool" -> bool_from_sql(s, i)
      [] T \in FloatTypes -> float_from_sql(T, s, i)
      [] T \in NotNanTypes -> not_nan_from_sql(T, s, i)
      [] T = "&[u8]" -> raw_bytes_from_sql(s, i)
      [] T = "&str" -> str_from_sql(s, i)
      [] T = "Vec<u8>" -> vec_from_sql(s, i)
      [] T = "String" -> string_from_sql(s, i)
      [] T = "()" -> unit_from_sql(s, i)
      [] T \in EnumTypes -> enum_from_sql(T, s, i)
      [] T = "PageRestrictionsOld" -> page_restrictions_from_sql(s, i)
      [] T = "Timestamp" -> timestamp_from_sql(s, i)
      [] T = "Expiry" -> expiry_from_sql(s, i)
      [] T \in WrapperTypes -> context(T, i, from_sql(Wrapped(T), s, i))
      [] T \in OptionTypes -> option_from_sql(s, i, from_sql(OptionInner(T), s, i))

(***************************************************************************)
(* schemas.rs: row types and the parser made by impl_row_from_sql!         *)
(***************************************************************************)
RowTypes == {"ChangeTagDefinition", "ImageLink", "Redirect"}

\* The declared fields of a row type, in declaration order.
Schema(rt) ==
    CASE rt = "ChangeTagDefinition" ->
             << [name |-> "id", type |-> "ChangeTagDefinitionId"],
                [name |-> "name", type |-> "String"],
                [name |-> "user_defined", type |-> "bool"],
                [name |-> "count", type |-> "u64"] >>
      [] rt = "ImageLink" ->
             << [name |-> "from", type |-> "PageId"],
                [name |-> "to", type |-> "PageTitle"],
                [name |-> "from_namespace", type |-> "PageNamespace"] >>
      [] rt = "Redirect" ->
             << [name |-> "from", type |-> "PageId"],
                [name |-> "namespace", type |-> "PageNamespace"],
                [name |-> "title", type |-> "PageTitle"],
                [name |-> "interwiki", type |-> "Option<&str>"],
                [name |-> "fragment", type |-> "Option<String>"] >>
      [] rt = "CategoryLink" ->
             << [name |-> "from", type |-> "PageId"],
                [name |-> "to", type |-> "PageTitle"],
                [name |-> "sortkey", type |-> "Vec<u8>"],
                [name |-> "timestamp", type |-> "Timestamp"],
                [name |-> "sortkey_prefix", type |-> "Vec<u8>"],
                [name |-> "collation", type |-> "String"],
                [name |-> "r#type", type |-> "PageType"] >>
      [] rt = "Page" ->
             << [name |-> "id", type |-> "PageId"],
                [name |-> "namespace", type |-> "PageNamespace"],
                [name |-> "title", type |-> "PageTitle"],
                [name |-> "restrictions", type |-> "Option<PageRestrictionsOld>"],
                [name |-> "is_redirect", type |-> "bool"],
                [name |-> "is_new", type |-> "bool"],
                [name |-> "random", type |-> "NotNan<f64>"],
                [name |-> "touched", type |-> "Timestamp"],
                [name |-> "links_updated", type |-> "Option<Timestamp>"],
                [name |-> "latest", type |-> "u32"],
                [name |-> "len", type |-> "u32"],
                [name |-> "content_model", type |-> "Option<ContentModel>"],
                [name |-> "lang", type |-> "Option<&str>"] >>

\* $table_name of a row type.
TableName(rt) ==
    CASE rt = "ChangeTagDefinition" -> "change_tag_def"
      [] rt = "ImageLink" -> "imagelinks"
      [] rt = "Redirect" -> "redirect"
      [] rt = "Page" -> "page"
      [] rt = "CategoryLink" -> "categorylinks"

\* The macro arm for row types with a lifetime labels the row "row in",
\* the arm for the others "row of".
RowLabel(rt) ==
    IF rt \in {"Redirect", "Page"}
    THEN "row in " \o TableName(rt) \o " table"
    ELSE "row of " \o TableName(rt) \o " table"

\* concat!("the field ", stringify!($field_name), ..): the label of a field;
\* the ASCII quotes stand for the typographic quotes of the source.
FieldLabel(rt, n) == "the field \"" \o Schema(rt)[n].name \o "\""

FieldNames(rt) == {Schema(rt)[n].name : n \in 1..Len(Schema(rt))}

FieldIndex(rt, f) == CHOOSE n \in 1..Len(Schema(rt)) : Schema(rt)[n].name = f

\* The closure |($($field_name),+)| $output_type { $($field_name,)+ }: the
\* n-th parsed value goes to the n-th declared field.
MakeRow(rt, vals) == [f \in FieldNames(rt) |-> vals[FieldIndex(rt, f)]]

\* map(tuple((..)), |(..)| $output_type {..})
map_row(rt, r) == IF r.k = "Ok" THEN Ok(r.i, MakeRow(rt, r.v)) ELSE r

RECURSIVE fields_from(_, _, _, _, _)
RECURSIVE field_then_rest(_, _, _, _, _, _)
RECURSIVE comma_then_rest(_, _, _, _, _)

\* tuple(( $( terminated(context("the field ...", <$type_name>::from_sql),
\* opt(char(','))), )+ )): field n and the fields after it, run at i, acc
\* holding the values of the fields before it.
fields_from(rt, s, i, n, acc) ==
    IF n > Len(Schema(rt)) THEN Ok(i, acc)
    ELSE field_then_rest(rt, s, i, n, acc,
                         context(FieldLabel(rt, n), i, from_sql(Schema(rt)[n].type, s, i)))

\* field_then_rest with a field that swallows its own failure: a field that
\* does not parse is left empty and parsing goes on.
field_then_rest_Lenient(rt, s, i, n, acc, f) ==
    IF f.k = "Ok"
    THEN comma_then_rest(rt, s, n, Append(acc, f.v), opt(f.i, char(",", s, f.i)))
    ELSE IF f.k = "Error"
    THEN comma_then_rest(rt, s, n, Append(acc, <<>>), opt(i, char(",", s, i)))
    ELSE f

\* f is the result of field n, run at i: on success opt(char(',')) follows.
field_then_rest(rt, s, i, n, acc, f) ==
    IF f.k = "Ok"
    THEN comma_then_rest(rt, s, n, Append(acc, f.v), opt(f.i, char(",", s, f.i)))
    ELSE f

\* c is the result of the opt(char(',')) after field n.
comma_then_rest(rt, s, n, acc, c) ==
    IF c.k = "Ok" THEN fields_from(rt, s, c.i, n + 1, acc) ELSE c

\* let fields = cut(map(tuple((..)), ..)), run after the char('(') whose
\* result is r
fields(rt, s, r) ==
    IF r.k = "Ok" THEN cut(map_row(rt, fields_from(rt, s, r.i, 1, <<>>))) ELSE r

\* c is the result of char(')') after the fields (result r): a closing
\* parenthesis that is looked at but not consumed.
closing_NotConsumed(r, c) == IF c.k = "Ok" THEN r ELSE c

\* from_sql_tuple that leaves the closing `)` in the rest.
from_sql_tuple_KeepParen(rt, s, i) ==
    context(RowLabel(rt), i,
            closing_NotConsumed(fields(rt, s, char("(", s, i)),
                                then_char(fields(rt, s, char("(", s, i)), ")", s)))

\* FromSqlTuple::from_sql_tuple:
\* context("row ..", preceded(char('('), terminated(fields, char(')'))))
from_sql_tuple(rt, s, i) ==
    context(RowLabel(rt), i, terminated_char(fields(rt, s, char("(", s, i)), ")", s))

(***************************************************************************)
(* error.rs: impl Display for Error                                        *)
(***************************************************************************)
\* alt((tag("NULL"), recognize(f64::from_sql), recognize(i64::from_sql),
\*      recognize(<Vec<u8>>::from_sql))): one element of a tuple.
element(s, i) ==
    alt2(i, tag(NULL_TOKEN, s, i),
         alt2(i, recognize(s, i, float_from_sql("f64", s, i)),
              alt2(i, recognize(s, i, number_from_sql("i64", s, i)),
                   recognize(s, i, vec_from_sql(s, i)))))

then_opt_char(r, c, s) == IF r.k = "Ok" THEN opt(r.i, char(c, s, r.i)) ELSE r

\* pair(alt((..)), opt(char(',')))
element_and_comma(s, i) == then_opt_char(element(s, i), ",", s)

\* The loop of many1 after an element: it ends at the first recoverable
\* error, and at an element that consumes nothing.
RECURSIVE many_more(_, _, _)
many_more(s, i, r) ==
    IF r.k = "Error" THEN Ok(i, NoValue)
    ELSE IF r.k # "Ok" THEN r
    ELSE IF r.i = i THEN Err("Error", from_error_kind(i, "Many1"))
    ELSE many_more(s, r.i, element_and_comma(s, r.i))

\* many1(pair(..)) with r the result of the first pair
many1_from(s, i, r) ==
    IF r.k = "Error" THEN Err("Error", append(i, "Many1", r.e))
    ELSE IF r.k # "Ok" THEN r
    ELSE many_more(s, r.i, element_and_comma(s, r.i))

then_many1(r, s) == IF r.k = "Ok" THEN many1_from(s, r.i, element_and_comma(s, r.i)) ELSE r

\* recognize(delimited(char('('), many1(..), char(')'))): a whole tuple.
whole_tuple(s, i) == recognize(s, i, then_char(then_many1(char("(", s, i), s), ")", s))

INPUT_GRAPHEMES_TO_SHOW == 100

\* The number of bytes of the grapheme that starts at i.  Of the bytes of
\* the model a CR LF pair and the two bytes of a character that is not
\* ASCII are a grapheme of two bytes; every other byte, one that is not
\* valid UTF-8 included, is a grapheme of its own.
grapheme_len(s, i) ==
    IF i < Len(s)
       /\ \/ <<s[i], s[i + 1]>> = <<"\r", "\n">>
          \/ s[i] \in LeadBytes /\ s[i + 1] \in ContinuationBytes
    THEN 2
    ELSE 1

\* The indexes in i..j at which a grapheme of the input from i on starts:
\* those that are not the second byte of a grapheme of two bytes (a byte
\* that can be the first of two is never the second of two).
grapheme_starts(s, i, j) == {k \in i..j : k = i \/ grapheme_len(s, k - 1) = 1}

\* The index after n graphemes from i on, or after the last byte when
\* there are fewer: the start of the grapheme after them, which is among
\* the 2 * n + 1 bytes from i on when it exists.
graphemes_end(s, i, n) ==
    LET starts == grapheme_starts(s, i, Min(Len(s), i + 2 * n))
    IN  IF Cardinality(starts) <= n THEN Len(s) + 1
        ELSE CHOOSE k \in starts : Cardinality({j \in starts : j < k}) = n

\* input.grapheme_indices().take(INPUT_GRAPHEMES_TO_SHOW).last(): the
\* input from i on, up to the end of that grapheme.
graphemes(s, i) == SubSeq(s, i, graphemes_end(s, i, INPUT_GRAPHEMES_TO_SHOW) - 1)

\* The snippet for the input that starts at i, given what the tuple
\* recognizer (row) and the element recognizer (one) make of it.
shown(s, i, row, one) ==
    IF i > Len(s) THEN <<>>
    ELSE IF s[i] = "(" /\ row.k = "Ok" THEN row.v
    ELSE IF one.k = "Ok" THEN one.v
    ELSE graphemes(s, i)

\* fn show_input
show_input(s, i) == shown(s, i, whole_tuple(s, i), element(s, i))

\* The k-th of the bytes is not part of a UTF-8 sequence: a byte that is in
\* none, a first byte without a second, or a second without a first.
IsInvalidAt(bytes, k) ==
    \/ bytes[k] = BadByte
    \/ /\ bytes[k] \in LeadBytes
       /\ ~(k < Len(bytes) /\ bytes[k + 1] \in ContinuationBytes)
    \/ /\ bytes[k] \in ContinuationBytes
       /\ ~(k > 1 /\ bytes[k - 1] \in LeadBytes)

\* The text for the bytes lo..hi, by halves.
RECURSIVE lossy(_, _, _)
lossy(bytes, lo, hi) ==
    IF lo > hi THEN <<>>
    ELSE IF lo = hi
    THEN (IF IsInvalidAt(bytes, lo) THEN REPLACEMENT_CHARACTER ELSE <<bytes[lo]>>)
    ELSE lossy(bytes, lo, (lo + hi) \div 2) \o lossy(bytes, (lo + hi) \div 2 + 1, hi)

\* Display for BStr, the "{}" of a snippet: the bytes as text, with U+FFFD
\* in the place of every byte that is not valid UTF-8.
BStr_fmt(bytes) == lossy(bytes, 1, Len(bytes))

\* labels.iter().join_with(" or ")
RECURSIVE join_with(_, _)
join_with(labels, sep) ==
    IF Len(labels) = 0 THEN ""
    ELSE IF Len(labels) = 1 THEN labels[1]
    ELSE labels[1] \o sep \o join_with(Tail(labels), sep)

\* One written line: its opening words, the label, and the snippet that
\* follows "at", if any (<<snippet>>, or <<>> for none).
Line(head, label, at) == [head |-> head, label |-> label, at |-> at]

\* The lines for the frames from the n-th on: "while parsing {label}", with
\* a snippet when the frame's input differs from that of the frame before.
RECURSIVE while_parsing(_, _, _)
while_parsing(s, ctx, n) ==
    IF n > Len(ctx) THEN <<>>
    ELSE <<Line("while parsing", join_with(ctx[n].labels, " or "),
                IF ctx[n].pos = ctx[n - 1].pos THEN <<>>
                ELSE <<BStr_fmt(show_input(s, ctx[n].pos))>>)>>
         \o while_parsing(s, ctx, n + 1)

\* Display::fmt for an Error over the buffer s.
fmt(s, e) ==
    IF e.t = "ErrorKind"
    THEN <<Line("error in", e.kind, <<BStr_fmt(show_input(s, e.pos))>>)>>
    ELSE IF Len(e.ctx) = 0
    THEN <<Line("unknown error", "", <<>>)>>
    ELSE <<Line("expected", join_with(e.ctx[1].labels, " or "),
                <<BStr_fmt(show_input(s, e.ctx[1].pos))>>)>>
         \o while_parsing(s, e.ctx, 2)

(***************************************************************************)
(* lib.rs: iterate_sql_insertions                                          *)
(***************************************************************************)
\* The table-name predicate without the `_` case.
TableNameBytes_NoUnderscore == Lowercase

\* The closure |b: u8| b == b'_' || b.is_ascii_lowercase()
TableNameBytes == Lowercase \cup {"_"}

\* statement_head without the optional `;` in front of INSERT INTO.
statement_head_NoSemicolon(s, i) ==
    recognize(s, i,
        then_tag(
            then_take_while(
                then_tag(opt(i, multispace0(s, i)), INSERT_INTO_BQ, s),
                TableNameBytes, s),
            BQ_VALUES, s))

\* recognize(tuple((opt(multispace0), opt(tag(";")), opt(multispace0),
\* tuple((tag("INSERT INTO `"), take_while(..), tag("` VALUES "))))))
statement_head(s, i) ==
    recognize(s, i,
        then_tag(
            then_take_while(
                then_tag(
                    then_opt_multispace0(
                        then_opt_tag(opt(i, multispace0(s, i)), <<";">>, s),
                        s),
                    INSERT_INTO_BQ, s),
                TableNameBytes, s),
            BQ_VALUES, s))

\* The separator without its second alternative, the `,` between tuples.
separator_NoComma(s, i) == statement_head(s, i)

\* alt((statement head, tag(",")))
separator(s, i) == alt2(i, statement_head(s, i), tag(<<",">>, s, i))

\* preceded(.., from_sql_tuple) after the separator whose result is r
then_from_sql_tuple(rt, s, r) == IF r.k = "Ok" THEN from_sql_tuple(rt, s, r.i) ELSE r

\* A row parser that lets whitespace stand between the separator and the
\* tuple.
row_parser_SkipSpace(rt, s, i) ==
    then_from_sql_tuple(rt, s, then_opt_multispace0(separator(s, i), s))

\* preceded(alt((..)), FromSqlTuple::from_sql_tuple): the parser handed to
\* nom's iterator.
row_parser(rt, s, i) == then_from_sql_tuple(rt, s, separator(s, i))

\* A search that returns the last occurrence (rfind) instead of the first.
find_Last(s, pat, i) ==
    LET occ == {j \in i..(Len(s) - Len(pat) + 1) : SubSeq(s, j, j + Len(pat) - 1) = pat}
    IN  IF occ = {} THEN 0 ELSE CHOOSE j \in occ : \A m \in occ : m <= j

\* sql.find("INSERT INTO"): the index of the first occurrence at or after i,
\* 0 when there is none.
RECURSIVE find(_, _, _)
find(s, pat, i) ==
    IF i + Len(pat) - 1 > Len(s) THEN 0
    ELSE IF SubSeq(s, i, i + Len(pat) - 1) = pat THEN i
    ELSE find(s, pat, i + 1)

\* The iterator after a step: its state, its input, the error it holds and
\* the item next() returns (<<>> is None, <<row>> is Some(row)).
Iter(st, inp, e, item) == [state |-> st, input |-> inp, err |-> e, item |-> item]

\* after_parse that yields the row but leaves the input where it was.
after_parse_NoAdvance(input, r) ==
    CASE r.k = "Ok" ->
             Iter("Running", input, NoError, <<[val |-> r.v, from |-> input, to |-> r.i]>>)
      [] r.k = "Error" -> Iter("Done", input, NoError, <<>>)
      [] r.k = "Failure" -> Iter("Failure", input, r.e, <<>>)
      [] r.k = "Incomplete" -> Iter("Incomplete", input, NoError, <<>>)

\* The match in ParserIterator::next on the result r of the parser run at
\* input: only Ok moves the input.
after_parse(input, r) ==
    CASE r.k = "Ok" ->
             Iter("Running", r.i, NoError, <<[val |-> r.v, from |-> input, to |-> r.i]>>)
      [] r.k = "Error" -> Iter("Done", input, NoError, <<>>)
      [] r.k = "Failure" -> Iter("Failure", input, r.e, <<>>)
      [] r.k = "Incomplete" -> Iter("Incomplete", input, NoError, <<>>)

\* A next() that looks for the next `INSERT INTO` when the parser fails with
\* a recoverable error, and parses from there.
ParserIterator_next_SearchAgain(rt, s, state, input) ==
    IF state = "Running"
    THEN IF row_parser(rt, s, input).k = "Error" /\ find(s, INSERT_INTO, input + 1) # 0
         THEN after_parse(find(s, INSERT_INTO, input + 1),
                          row_parser(rt, s, find(s, INSERT_INTO, input + 1)))
         ELSE after_parse(input, row_parser(rt, s, input))
    ELSE Iter("None", input, NoError, <<>>)

\* ParserIterator::next on an iterator whose Option<State> holds state: the
\* state is taken out of the Option before it is looked at, and only a parse
\* puts one back.
ParserIterator_next(rt, s, state, input) ==
    IF state = "Running"
    THEN after_parse(input, row_parser(rt, s, input))
    ELSE Iter("None", input, NoError, <<>>)

\* A finish() that takes a lack of input for the end of the input.
ParserIterator_finish_Lenient(state, input, err) ==
    CASE state \in {"Running", "Done", "Incomplete"} -> Ok(input, <<>>)
      [] state = "Failure" -> Err("Failure", err)

\* ParserIterator::finish
ParserIterator_finish(state, input, err) ==
    CASE state \in {"Running", "Done"} -> Ok(input, <<>>)
      [] state = "Failure" -> Err("Failure", err)
      [] state = "Incomplete" -> Incomplete

(***************************************************************************)
(* Inputs: SQL scripts and tuples assembled from pieces.  A piece is       *)
(* [kind, text, pick]; the buffer is the concatenation of the texts.       *)
(***************************************************************************)
\* Tuples per INSERT statement.
MaxTuples == 2

\* Literals per field type used in the tuples of a script.
MaxPick == 2

\* Literals per field type used in the tuples handed to from_sql_tuple.
MaxLits == 4

\* Valid literals of a field type with the value each one denotes.
Literals(T) ==
    CASE T \in {"PageId", "ChangeTagDefinitionId"} ->
             << [text |-> <<"1">>, val |-> 1],
                [text |-> <<"4", "2">>, val |-> 42],
                [text |-> <<"0", "0", "7">>, val |-> 7] >>
      [] T = "PageNamespace" ->
             << [text |-> <<"0">>, val |-> 0],
                [text |-> <<"-", "1">>, val |-> 0 - 1],
                [text |-> <<"1", "4">>, val |-> 14] >>
      [] T = "u64" ->
             << [text |-> <<"5">>, val |-> 5],
                [text |-> <<"1", "0">>, val |-> 10] >>
      [] T = "bool" ->
             << [text |-> <<"1">>, val |-> TRUE],
                [text |-> <<"0">>, val |-> FALSE] >>
      [] T \in {"String", "PageTitle"} ->
             << [text |-> <<"'", "a", "'">>, val |-> <<"a">>],
                [text |-> <<"'", "'">>, val |-> <<>>],
                [text |-> <<"'", "a", "\\", "'", "b", "'">>, val |-> <<"a", "'", "b">>],
                [text |-> <<"'", "(", "\\", "n", ",", ")", "\\", "\\", "'">>,
                 val |-> <<"(", "\n", ",", ")", "\\">>] >>
      [] T = "Option<&str>" ->
             << [text |-> NULL_TOKEN, val |-> <<>>],
                [text |-> <<"'", "e", "n", "'">>, val |-> << <<"e", "n">> >>],
                [text |-> <<"'", "'">>, val |-> << <<>> >>] >>
      [] T = "Option<String>" ->
             << [text |-> <<"'", "a", "\\", "'", "b", "'">>, val |-> << <<"a", "'", "b">> >>],
                [text |-> NULL_TOKEN, val |-> <<>>] >>

NumFields(rt) == Len(Schema(rt))

\* One literal index per declared field.
Picks(rt, max) ==
    {p \in [1..NumFields(rt) -> 1..max] :
        \A n \in 1..NumFields(rt) :
            p[n] <= Min(max, Len(Literals(Schema(rt)[n].type)))}

\* The same literal index (capped by the table) for every field.
DiagPick(rt, d) ==
    [n \in 1..NumFields(rt) |-> Min(d, Len(Literals(Schema(rt)[n].type)))]

LitText(rt, pick, n) == Literals(Schema(rt)[n].type)[pick[n]].text

LitVal(rt, pick, n) == Literals(Schema(rt)[n].type)[pick[n]].val

\* The row a well-formed tuple denotes.
ExpectedRow(rt, pick) ==
    [f \in FieldNames(rt) |-> LitVal(rt, pick, FieldIndex(rt, f))]

\* The field texts from field n on, joined by `,`; the comma after field
\* omit is left out, and field bad (if any) is replaced by junk.
RECURSIVE TupleBody(_, _, _, _, _, _)
TupleBody(rt, pick, n, omit, bad, junk) ==
    LET txt == IF n = bad THEN junk ELSE LitText(rt, pick, n)
    IN  IF n = NumFields(rt) THEN txt
        ELSE txt \o (IF n = omit THEN <<>> ELSE <<",">>)
                 \o TupleBody(rt, pick, n + 1, omit, bad, junk)

Piece(kind, text, pick) == [kind |-> kind, text |-> text, pick |-> pick]

GoodTuple(rt, pick) ==
    Piece("good", <<"(">> \o TupleBody(rt, pick, 1, 0, 0, <<>>) \o <<")">>, pick)

\* No `,` between field k and field k + 1.
NoCommaTuple(rt, pick, k) ==
    Piece("nocomma", <<"(">> \o TupleBody(rt, pick, 1, k, 0, <<>>) \o <<")">>, pick)

\* A `,` between the last field and `)`.
TrailCommaTuple(rt, pick) ==
    Piece("trailcomma", <<"(">> \o TupleBody(rt, pick, 1, 0, 0, <<>>) \o <<",", ")">>, pick)

\* Field k is not a literal of its type: it is junk.
BadFieldTuple(rt, pick, k, junk) ==
    Piece("badfield", <<"(">> \o TupleBody(rt, pick, 1, 0, k, junk) \o <<")">>, pick)

NoOpenTuple(rt, pick) ==
    Piece("noopen", TupleBody(rt, pick, 1, 0, 0, <<>>) \o <<")">>, pick)

NoCloseTuple(rt, pick) ==
    Piece("noclose", <<"(">> \o TupleBody(rt, pick, 1, 0, 0, <<>>), pick)

Junk == {<<"x">>, <<>>}

GoodTuples(rt, max) == {GoodTuple(rt, p) : p \in Picks(rt, max)}

BadTuples(rt) ==
    LET p == DiagPick(rt, 1)
    IN  {NoCommaTuple(rt, p, k) : k \in 1..(NumFields(rt) - 1)}
        \cup {TrailCommaTuple(rt, p), NoOpenTuple(rt, p), NoCloseTuple(rt, p)}
        \cup {BadFieldTuple(rt, p, k, j) : k \in 1..NumFields(rt), j \in Junk}

\* The table name of a row type as bytes.
TableNameText(rt) ==
    CASE rt = "ChangeTagDefinition" ->
             <<"c", "h", "a", "n", "g", "e", "_", "t", "a", "g", "_", "d", "e", "f">>
      [] rt = "ImageLink" -> <<"i", "m", "a", "g", "e", "l", "i", "n", "k", "s">>
      [] rt = "Redirect" -> <<"r", "e", "d", "i", "r", "e", "c", "t">>

\* Other table names made of lowercase letters and underscores.
OtherNames == {<<"t">>, <<"_", "x">>, <<>>}

HeadPiece(name) == Piece("head", INSERT_INTO_BQ \o name \o BQ_VALUES, <<>>)

\* Table names that hold a byte other than a lowercase letter or underscore.
BadNames == {<<"T">>, <<"a", "1">>, <<"a", " ", "b">>, <<BQ>>}

\* A statement head around such a name.
BadHeadPiece(name) == Piece("badhead", INSERT_INTO_BQ \o name \o BQ_VALUES, <<>>)

Comma == Piece("comma", <<",">>, <<>>)

\* What stands between two statements: a semicolon and whitespace.
StmtSeps ==
    {Piece("stmtsep", <<";", "\n">>, <<>>),
     Piece("stmtsep", <<" ", ";", "\r", "\n", "\t">>, <<>>)}

\* The mysqldump trailer `;\n/*...*/`.
Trailer == Piece("trailer", <<";", "\n", "/", "*", "x", "*", "/">>, <<>>)

\* What a script may have between two tuples in place of a single `,` or of
\* `;`, whitespace and a statement head: a comma with whitespace around it,
\* two commas, nothing, another byte, a head that lacks its `;`, and a head
\* with a byte too few or too many before the tuple.
Gaps(name) ==
    {Piece("gap", t, <<>>) :
        t \in {<<",", " ">>, <<",", "\n">>, <<" ", ",">>, <<",", ",">>, <<>>, <<";">>, <<"x">>,
               <<"\n">> \o INSERT_INTO_BQ \o name \o BQ_VALUES,
               INSERT_INTO_BQ \o name \o BQ_VALUES,
               <<";", ";", "\n">> \o INSERT_INTO_BQ \o name \o BQ_VALUES,
               <<";", "\n">> \o INSERT_INTO_BQ \o name \o SubSeq(BQ_VALUES, 1, Len(BQ_VALUES) - 1),
               <<";", "\n">> \o INSERT_INTO_BQ \o name \o BQ_VALUES \o <<" ">>,
               <<";", "\n">> \o SubSeq(INSERT_INTO_BQ, 1, Len(INSERT_INTO_BQ) - 1) \o name \o BQ_VALUES}}

\* Other ways a buffer ends after the last tuple: at once, or after `;\n`.
Endings ==
    {Piece("end", <<>>, <<>>), Piece("end", <<";", "\n">>, <<>>)}

\* What precedes the first statement.
Preambles ==
    {Piece("pre", <<"-", "-", " ", "I", "N", "S", "E", "R", "T", "\n">>, <<>>),
     Piece("pre", <<"/", "*">> \o INSERT_INTO \o <<"*", "/", "\n">>, <<>>)}

\* tuple (`,` tuple)* for a sequence of tuple pieces
RECURSIVE CommaJoin(_)
CommaJoin(ts) ==
    IF Len(ts) <= 1 THEN ts
    ELSE <<ts[1], Comma>> \o CommaJoin(Tail(ts))

\* Sequences of 1..max tuples of the row type: any number of well-formed
\* ones with at most one other tuple among them.
TupleLists(rt, max) ==
    LET good == {GoodTuple(rt, DiagPick(rt, d)) : d \in 1..MaxPick}
        all == good \cup BadTuples(rt)
    IN  UNION {{ts \in [1..n -> all] :
                   Cardinality({k \in 1..n : ts[k].kind # "good"}) <= 1}
               : n \in 1..max}

GoodLists(rt, max) ==
    LET good == {GoodTuple(rt, DiagPick(rt, d)) : d \in 1..MaxPick}
    IN  UNION {[1..n -> good] : n \in 1..max}

Statement(name, ts) == <<HeadPiece(name)>> \o CommaJoin(ts)

\* The scripts handed to iterate_sql_insertions.
Scripts(rt) ==
    LET canon == TableNameText(rt)
        one == {Statement(canon, ts) \o <<e>> :
                    ts \in TupleLists(rt, MaxTuples), e \in {Trailer} \cup Endings}
        two == {Statement(canon, ts1) \o <<sp>> \o Statement(canon, ts2) \o <<Trailer>> :
                    ts1 \in TupleLists(rt, MaxTuples),
                    sp \in StmtSeps,
                    ts2 \in GoodLists(rt, MaxTuples)}
        named == {Statement(nm, ts) \o <<Trailer>> :
                    nm \in OtherNames, ts \in TupleLists(rt, MaxTuples)}
        pre == {<<p>> \o Statement(canon, ts) \o <<Trailer>> :
                    p \in Preambles, ts \in GoodLists(rt, MaxTuples)}
        badnamed == {<<BadHeadPiece(nm)>> \o CommaJoin(ts) \o <<Trailer>> :
                        nm \in BadNames, ts \in GoodLists(rt, MaxTuples)}
        none == {<<p>> : p \in Preambles}
                \cup {<<p, Trailer>> : p \in Preambles}
        gapped == {Statement(canon, ts) \o <<g, GoodTuple(rt, DiagPick(rt, 1)), Trailer>> :
                    ts \in GoodLists(rt, 1), g \in Gaps(canon)}
    IN  one \cup two \cup named \cup badnamed \cup pre \cup none \cup gapped

\* The inputs handed to from_sql_tuple directly: one tuple and what follows it.
TupleTails ==
    {Piece("end", <<>>, <<>>), Comma, Trailer}

TupleInputs(rt) ==
    {<<t, tl>> : t \in GoodTuples(rt, MaxLits) \cup BadTuples(rt), tl \in TupleTails}

(***************************************************************************)
(* Inputs of the scalar parsers: one token of a kind, and what follows it  *)
(***************************************************************************)
StringTypes == {"&[u8]", "&str", "Vec<u8>", "String"}

EscapedTypes == {"Vec<u8>", "String"}

StringOptionTypes == {"Option<&str>", "Option<String>"}

\* Buffers that end inside a token of type T: each is a proper prefix of a
\* longer valid token.
PrefixTexts(T) ==
    CASE T \in IntTypes ->
             {<<>>, <<"0">>, <<"1", "2">>, <<"0", "0", "7">>}
             \cup (IF IsSigned(T) THEN {<<"-">>, <<"-", "1">>} ELSE {})
      [] T = "bool" -> {<<>>}
      [] T \in StringTypes ->
             {<<>>, <<"'">>, <<"'", "a", "b">>}
             \cup (IF T \in EscapedTypes
                   THEN {<<"'", "a", "\\">>, <<"'", "a", "\\", "n">>, <<"'", "a", "\\", "'">>}
                   ELSE {})
      [] T = "()" -> {<<>>, <<"N">>, <<"N", "U">>, <<"N", "U", "L">>}
      [] T \in StringOptionTypes ->
             {<<>>, <<"N">>, <<"N", "U">>, <<"N", "U", "L">>, <<"'">>, <<"'", "a", "b">>}

\* Buffers whose first bytes cannot begin a token of type T.
MalformedTexts(T) ==
    CASE T \in IntTypes ->
             {<<"x">>, <<"x", "1">>, <<"'", "1", "'">>}
             \cup (IF IsSigned(T) THEN {<<"-", "x">>, <<"-", "-", "1">>} ELSE {<<"-", "1", " ">>})
      [] T = "bool" -> {<<"2">>, <<"x">>}
      [] T \in StringTypes -> {<<"x", "'">>, <<"1">>}
      [] T = "()" -> {<<"N", "x">>, <<"n", "u", "l", "l">>, <<"0">>}
      [] T \in StringOptionTypes -> {<<"N", "x">>, <<"n", "u", "l", "l">>, <<"0">>}

\* Buffers that hold a whole token of type T and at least one byte after it.
CompleteTexts(T) ==
    CASE T \in IntTypes ->
             {<<"0", ",">>, <<"1", "2", ")">>} \cup (IF IsSigned(T) THEN {<<"-", "1", " ">>} ELSE {})
      [] T = "bool" -> {<<"0">>, <<"1", ",">>}
      [] T \in StringTypes -> {<<"'", "'">>, <<"'", "a", "b", "'", ",">>}
      [] T = "()" -> {<<"N", "U", "L", "L">>, <<"N", "U", "L", "L", ",">>}
      [] T \in StringOptionTypes -> {<<"N", "U", "L", "L">>, <<"'", "a", "b", "'", ")">>}

\* The decoding of the escape sequences as the data model lists them:
\* NUL, 0x08, TAB, LF, CR, 0x1A, backslash, single quote, double quote.
ListedDecoding(x) ==
    CASE x = "0" -> "x00"
      [] x = "b" -> "x08"
      [] x = "t" -> "\t"
      [] x = "n" -> "\n"
      [] x = "r" -> "\r"
      [] x = "Z" -> "x1A"
      [] x = "\\" -> "\\"
      [] x = "'" -> "'"
      [] x = "\"" -> "\""

ListedEscapes == {"0", "b", "t", "n", "r", "Z", "\\", "'", "\""}

\* Bytes that stand for themselves inside a quoted string.
PlainBytes == {"a", "b", ","}

\* Bytes that follow a backslash in no listed escape sequence.
UnknownEscapes == {"q", "N", "B", "z", "1", "%", "_", " "}

\* The longest content, in plain bytes and escape sequences, of the strings
\* handed to the escaped string parsers.
MaxItems == 2

\* What a string content is made of: a plain byte or an escape sequence.
StringItems ==
    {[esc |-> FALSE, b |-> c] : c \in PlainBytes}
    \cup {[esc |-> TRUE, b |-> x] : x \in ListedEscapes}

\* Some longer contents: a'b, a\'b and (\n,'')
LongerContents ==
    {<<[esc |-> FALSE, b |-> "a"], [esc |-> TRUE, b |-> "'"], [esc |-> FALSE, b |-> "b"]>>,
     <<[esc |-> FALSE, b |-> "a"], [esc |-> TRUE, b |-> "\\"], [esc |-> TRUE, b |-> "'"],
       [esc |-> FALSE, b |-> "b"]>>,
     <<[esc |-> FALSE, b |-> "("], [esc |-> TRUE, b |-> "n"], [esc |-> FALSE, b |-> ","],
       [esc |-> TRUE, b |-> "'"], [esc |-> TRUE, b |-> "'"], [esc |-> FALSE, b |-> ")"]>>}

\* The bytes of a content as mysqldump writes them.
RECURSIVE ItemsText(_)
ItemsText(items) ==
    IF Len(items) = 0 THEN <<>>
    ELSE (IF items[1].esc THEN <<"\\", items[1].b>> ELSE <<items[1].b>>)
         \o ItemsText(Tail(items))

\* The bytes a content denotes.
RECURSIVE ItemsBytes(_)
ItemsBytes(items) ==
    IF Len(items) = 0 THEN <<>>
    ELSE <<IF items[1].esc THEN ListedDecoding(items[1].b) ELSE items[1].b>>
         \o ItemsBytes(Tail(items))

\* What follows the closing quote of a string in the buffer.
StringTails ==
    {Piece("end", <<>>, <<>>), Comma, Piece("tail", <<"'", "b", "'">>, <<>>),
      Piece("tail", <<"\\", "'">>, <<>>)}

\* Quoted strings with their decoding, and quoted strings that hold a
\* backslash followed by a byte of no escape sequence.
EscapedInputs(T) ==
    IF T \notin EscapedTypes THEN {}
    ELSE {<<Piece("escaped", <<"'">> \o ItemsText(its) \o <<"'">>, ItemsBytes(its)), tl>> :
              its \in UNION {[1..n -> StringItems] : n \in 0..MaxItems} \cup LongerContents,
              tl \in StringTails}
         \cup {<<Piece("unknownescape",
                        <<"'">> \o pre \o <<"\\", x>> \o post \o <<"'">>, <<>>)>> :
                  x \in UnknownEscapes,
                  pre \in {<<>>, <<"a">>, <<"\\", "n">>},
                  post \in {<<>>, <<"b">>}}

\* A string between single quotes.
Quoted(str) == <<"'">> \o str \o <<"'">>

\* Tokens of type T with the value each denotes.
TokensOf(T) ==
    CASE T = "u32" ->
             {[text |-> <<"0">>, val |-> 0], [text |-> <<"4", "2">>, val |-> 42]}
      [] T = "&str" ->
             {[text |-> <<"'", "'">>, val |-> <<>>],
               [text |-> <<"'", "e", "n", "'">>, val |-> <<"e", "n">>],
               [text |-> <<"'", "N", "U", "L", "L", "'">>, val |-> <<"N", "U", "L", "L">>]}
      [] T = "ContentModel" ->
             {[text |-> Quoted(<<"c", "s", "s">>), val |-> Variant("Css")],
              [text |-> Quoted(NULL_TOKEN), val |-> Other(NULL_TOKEN)]}
      [] T = "PageRestrictionsOld" ->
             {[text |-> Quoted(<<>>), val |-> {}],
              [text |-> Quoted(NULL_TOKEN),
               val |-> {[key |-> Variant("All"), val |-> <<Other(NULL_TOKEN)>>]}]}
      [] T = "String" ->
             {[text |-> <<"'", "a", "\\", "'", "b", "'">>, val |-> <<"a", "'", "b">>],
               [text |-> <<"'", "N", "U", "L", "L", "'">>, val |-> <<"N", "U", "L", "L">>],
               [text |-> <<"'", "N", "'">>, val |-> <<"N">>]}
      [] T = "Timestamp" ->
             {[text |-> Quoted(<<"2", "0", "2", "0", "0", "2", "0", "1", "1", "5", "1", "5", "5", "4">>),
               val |-> DateTime(<<2020, 2, 1, 15, 15, 54>>)],
              [text |-> Quoted(<<"2", "0", "2", "0", "-", "0", "2", "-", "2", "9", " ", "2", "3", ":", "5", "9", ":", "5", "9">>),
               val |-> DateTime(<<2020, 2, 29, 23, 59, 59>>)]}
      [] T = "Expiry" ->
             {[text |-> Quoted(<<"2", "0", "2", "0", "0", "2", "0", "1", "1", "5", "1", "5", "5", "4">>),
               val |-> [variant |-> "Timestamp", at |-> DateTime(<<2020, 2, 1, 15, 15, 54>>)]],
              [text |-> Quoted(<<"i", "n", "f", "i", "n", "i", "t", "y">>),
               val |-> [variant |-> "Infinity", at |-> NoValue]]}

\* What follows a field in a tuple.
FieldTails == {Comma, Piece("tail", <<")">>, <<>>)}

\* The types T of the Option<T> fields.
InnerTypes == {OptionInner(O) : O \in OptionTypes}

\* The token NULL and what may follow it.
NullInputs ==
    {<<Piece("null", NULL_TOKEN, <<>>), tl>> :
        tl \in FieldTails \cup {Piece("end", <<>>, <<>>), Piece("tail", <<"x">>, <<>>)}}

\* For Option<T>: NULL, and the tokens of T.  For T: NULL.
OptionInputs(T) ==
    (IF T \in OptionTypes
     THEN NullInputs
          \cup {<<Piece("present", l.text, l.val), tl>> :
                    l \in TokensOf(OptionInner(T)), tl \in FieldTails}
     ELSE {})
    \cup (IF T \in InnerTypes THEN NullInputs ELSE {})

\* The width in bits of an integer type, and the bounds of the types of at
\* most 16 bits.
Bits(T) ==
    CASE T \in {"u8", "i8"} -> 8
      [] T \in {"u16", "i16"} -> 16
      [] T \in {"u32", "i32"} -> 32
      [] T \in {"u64", "i64"} -> 64

\* n lies in the range of T, for the integers n of the inputs, all of them
\* between -2^17 and 2^17.
InRange(T, n) ==
    IF IsSigned(T)
    THEN Bits(T) > 16 \/ (0 - 2^(Bits(T) - 1) <= n /\ n <= 2^(Bits(T) - 1) - 1)
    ELSE 0 <= n /\ (Bits(T) > 16 \/ n <= 2^Bits(T) - 1)

\* The decimal numeral of n >= 0.
RECURSIVE ToDigits(_)
ToDigits(n) ==
    IF n < 10 THEN <<DigitChar(n)>> ELSE ToDigits(n \div 10) \o <<DigitChar(n % 10)>>

Numeral(n) == IF n < 0 THEN <<"-">> \o ToDigits(0 - n) ELSE ToDigits(n)

Near(c) == (c - 2)..(c + 2)

\* Integers around zero and around the bounds of the 8 and 16 bit types.
SmallNumbers ==
    Near(0) \cup Near(127) \cup Near(0 - 128) \cup Near(255)
    \cup Near(32767) \cup Near(0 - 32768) \cup Near(65535)

\* The numeral of m times the number of the numeral d, plus carry.
RECURSIVE TimesWith(_, _, _)
TimesWith(d, m, carry) ==
    IF Len(d) = 0 THEN (IF carry = 0 THEN <<>> ELSE ToDigits(carry))
    ELSE TimesWith(SubSeq(d, 1, Len(d) - 1), m, (m * DigitVal(d[Len(d)]) + carry) \div 10)
         \o <<DigitChar((m * DigitVal(d[Len(d)]) + carry) % 10)>>

\* The numeral of 2^k.
RECURSIVE TwoPow(_)
TwoPow(k) == IF k <= 16 THEN ToDigits(2^k) ELSE TimesWith(TwoPow(k - 16), 2^16, 0)

\* The numeral of 2^k - 1, k >= 1: the last digit of 2^k is not 0.
TwoPowMinus1(k) ==
    SubSeq(TwoPow(k), 1, Len(TwoPow(k)) - 1)
    \o <<DigitChar(DigitVal(TwoPow(k)[Len(TwoPow(k))]) - 1)>>

\* The numerals around the bounds of the 32 and 64 bit types, ascending.
WideNumerals ==
    <<TwoPowMinus1(31), TwoPow(31), TwoPowMinus1(32), TwoPow(32),
      TwoPowMinus1(63), TwoPow(63), TwoPowMinus1(64), TwoPow(64)>>

\* How many of the WideNumerals are at most the largest value of T, and how
\* many are at most the magnitude of its smallest value.
WideAccepted(T, neg) ==
    CASE T = "u32" -> IF neg THEN 0 ELSE 3
      [] T = "i32" -> IF neg THEN 2 ELSE 1
      [] T = "u64" -> IF neg THEN 0 ELSE 7
      [] T = "i64" -> IF neg THEN 6 ELSE 5
      [] OTHER -> 0

LeadingZeros == {<<>>, <<"0", "0">>}

Expect(ok, val) == [ok |-> ok, val |-> val]

\* Numerals with the verdict and the value the integer contract gives them.
NumeralPieces(T) ==
    {Piece("numeral",
           (IF n < 0 THEN <<"-">> ELSE <<>>) \o z \o ToDigits(IF n < 0 THEN 0 - n ELSE n),
           Expect(InRange(T, n), n)) :
        n \in SmallNumbers, z \in LeadingZeros}
    \cup {Piece("numeral", <<"-", "0">>, Expect(IsSigned(T), 0))}
    \cup {Piece("numeral", z \o WideNumerals[j], Expect(j <= WideAccepted(T, FALSE), WideNumerals[j])) :
            j \in 1..Len(WideNumerals), z \in LeadingZeros}
    \cup {Piece("numeral", <<"-">> \o z \o WideNumerals[j],
                 Expect(j <= WideAccepted(T, TRUE), <<"-">> \o WideNumerals[j])) :
            j \in 1..Len(WideNumerals), z \in LeadingZeros}

\* What follows a numeral: a byte that is not a digit.
NumeralTails == FieldTails \cup {Piece("tail", <<"x", "1">>, <<>>), Piece("tail", <<"-", "3">>, <<>>)}

\* Buffers with no digit where the digits of the numeral are expected.
NoDigitTexts == {<<",">>, <<"x">>, <<"-", ",">>, <<"-", "x">>, <<"+", "1", ",">>, <<"-", "-", "1", ",">>, <<" ", "1", ",">>}

IntInputs(T) ==
    IF T \notin IntTypes THEN {}
    ELSE {<<p, tl>> : p \in NumeralPieces(T), tl \in NumeralTails}
         \cup {<<Piece("nodigit", t, <<>>)>> : t \in NoDigitTexts}

LowerLetters == <<"a", "b", "c", "d", "e", "f", "g", "h", "i", "j", "k", "l", "m", "n", "o", "p", "q", "r", "s", "t", "u", "v", "w", "x", "y", "z">>

UpperLetters == <<"A", "B", "C", "D", "E", "F", "G", "H", "I", "J", "K", "L", "M", "N", "O", "P", "Q", "R", "S", "T", "U", "V", "W", "X", "Y", "Z">>

\* A letter in the other case; every other byte as it is.
FlipCase(c) ==
    IF \E n \in 1..26 : LowerLetters[n] = c
    THEN UpperLetters[CHOOSE n \in 1..26 : LowerLetters[n] = c]
    ELSE IF \E n \in 1..26 : UpperLetters[n] = c
    THEN LowerLetters[CHOOSE n \in 1..26 : UpperLetters[n] = c]
    ELSE c

FlipFirst(str) == <<FlipCase(str[1])>> \o Tail(str)

FlipAll(str) == [n \in 1..Len(str) |-> FlipCase(str[n])]

\* The recognized values of an enumeration.
KnownNames(T) == {EnumTable(T)[n].name : n \in 1..Len(EnumTable(T))}

\* Values no enumeration recognizes, and the recognized values of T in
\* another case.
UnknownNames(T) ==
    ({<<"x", "y", "z", "z", "y">>, <<"a", "l", "l">>, <<"N", "U", "L", "L">>, <<"p", "a", "g", "e", " ">>, <<"a", "=", "b">>, <<"n", "o", "n", "e">>}
     \cup {FlipFirst(nm) : nm \in KnownNames(T) \ {<<>>}}
     \cup {FlipAll(nm) : nm \in KnownNames(T)}
     \cup (IF T = "ProtectionLevel" THEN {} ELSE {<<>>}))
    \ KnownNames(T)

EnumTails == FieldTails \cup {Piece("end", <<>>, <<>>)}

\* Quoted values of an enumeration: a recognized value with its variant, or
\* an unrecognized value.
EnumInputs(T) ==
    IF T \notin EnumTypes THEN {}
    ELSE {<<Piece("known", Quoted(EnumTable(T)[n].name), EnumTable(T)[n].variant), tl>> :
              n \in 1..Len(EnumTable(T)), tl \in EnumTails}
         \cup {<<Piece("unknown", Quoted(nm), nm), tl>> :
                  nm \in UnknownNames(T), tl \in EnumTails}

\* The most restrictions in a page.restrictions string of the inputs.
MaxSpecs == 2

Token(text, val) == [text |-> text, val |-> val]

\* Actions as written, with the action each denotes; NoAction is the
\* action of a bare level list.
ActionTokens ==
    {Token(<<"e", "d", "i", "t">>, Variant("Edit")), Token(<<"m", "o", "v", "e">>, Variant("Move")),
      Token(<<"r", "o", "l", "l", "b", "a", "c", "k">>, Other(<<"r", "o", "l", "l", "b", "a", "c", "k">>))}

NoAction == Token(<<>>, Variant("All"))

\* Level lists as written, with the levels each denotes.
LevelListTokens ==
    {Token(<<"s", "y", "s", "o", "p">>, <<Variant("Sysop")>>),
      Token(<<>>, <<Variant("None")>>),
      Token(<<"b", "o", "t">>, <<Other(<<"b", "o", "t">>)>>),
      Token(<<"a", "u", "t", "o", "c", "o", "n", "f", "i", "r", "m", "e", "d", ",", "s", "y", "s", "o", "p">>, <<Variant("Autoconfirmed"), Variant("Sysop")>>),
      Token(<<"s", "y", "s", "o", "p", ",">>, <<Variant("Sysop"), Variant("None")>>)}

\* `action=levels`, or a bare non-empty level list.
RestrictionTokens ==
    {Token(a.text \o <<"=">> \o l.text, Entry(a.val, l.val)) :
        a \in ActionTokens, l \in LevelListTokens}
    \cup {Token(l.text, Entry(NoAction.val, l.val)) :
            l \in {x \in LevelListTokens : x.text # <<>>}}

\* The restrictions joined by `:`.
RECURSIVE JoinText(_)
JoinText(rs) ==
    IF Len(rs) = 0 THEN <<>>
    ELSE IF Len(rs) = 1 THEN rs[1].text
    ELSE rs[1].text \o <<":">> \o JoinText(Tail(rs))

\* The map the restrictions denote: one entry per action, the last
\* restriction of an action giving its levels.
DenotedMap(rs) ==
    {rs[n].val : n \in {m \in 1..Len(rs) :
                            \A k \in (m + 1)..Len(rs) : rs[k].val.key # rs[m].val.key}}

\* page.restrictions strings with the map each denotes: up to MaxSpecs
\* restrictions, and some strings with empty parts or a second `=`.
RestrictionPieces ==
    {Piece("restrictions", Quoted(JoinText(rs)), DenotedMap(rs)) :
        rs \in UNION {[1..n -> RestrictionTokens] : n \in 0..MaxSpecs}}
    \cup {Piece("restrictions", Quoted(<<":">>), {}),
           Piece("restrictions", Quoted(<<"e", "d", "i", "t", "=", "s", "y", "s", "o", "p", ":">>),
                 {Entry(Variant("Edit"), <<Variant("Sysop")>>)}),
           Piece("restrictions", Quoted(<<":", ":", "m", "o", "v", "e", "=">>),
                 {Entry(Variant("Move"), <<Variant("None")>>)}),
           Piece("restrictions", Quoted(<<"a", "=", "b", "=", "c">>),
                 {Entry(Other(<<"a", "=", "b">>), <<Other(<<"c">>)>>)})}

\* A bare non-empty level list, kept with the string as written.
BareLevelPieces ==
    {Piece("barelevel", Quoted(l.text), l.text) :
        l \in {x \in LevelListTokens : x.text # <<>>}}

RestrictionInputs(T) ==
    IF T # "PageRestrictionsOld" THEN {}
    ELSE {<<p, tl>> : p \in RestrictionPieces \cup BareLevelPieces, tl \in EnumTails}

\* Quoted contents with no single quote in them, for the two byte-string
\* parsers: letters, double quotes and backslashes.
UnquotedInputs(T) ==
    IF T \notin {"&[u8]", "Vec<u8>"} THEN {}
    ELSE {<<Piece("unquoted", Quoted(c), c), tl>> :
              c \in UNION {[1..n -> {"a", "n", "\"", "\\"}] : n \in 0..MaxItems},
              tl \in {Piece("end", <<>>, <<>>), Comma, Piece("tail", <<"'", "b", "'">>, <<>>)}}

PrefixTypes == IntTypes \cup {"bool", "()"} \cup StringTypes \cup StringOptionTypes

PrefixInputs(T) ==
    IF T \notin PrefixTypes THEN {}
    ELSE {<<Piece("prefix", t, <<>>)>> : t \in PrefixTexts(T)}
         \cup {<<Piece("malformed", t, <<>>)>> : t \in MalformedTexts(T)}
         \cup {<<Piece("complete", t, <<>>)>> : t \in CompleteTexts(T)}

\* The types whose from_sql is called directly.
\* Date-times as six numbers: year, month, day, hour, minute, second.  The
\* dates are taken with one time and the times with one date.
StampYears == {1900, 2000, 2020, 2021}

StampDates ==
    {<<y, m, d, 15, 15, 54>> : y \in StampYears, m \in {0, 1, 2, 4, 12, 13},
                               d \in {0, 1, 28, 29, 30, 31, 32}}

StampTimes ==
    {<<2020, 2, 1, h, m, s>> : h \in {0, 23, 24}, m \in {0, 59, 60}, s \in {0, 59, 61}}

StampNumbers == StampDates \cup StampTimes

\* The days of the months of a common year.
MonthDays == <<31, 28, 31, 30, 31, 30, 31, 31, 30, 31, 30, 31>>

\* The numbers are a date of the calendar and a time of the day.
OnCalendar(n) ==
    /\ n[2] \in 1..12
    /\ n[3] >= 1
    /\ n[3] <= (IF n[2] = 2 /\ n[1] % 4 = 0 /\ (n[1] % 100 # 0 \/ n[1] % 400 = 0)
                THEN 29 ELSE MonthDays[n[2]])
    /\ n[4] <= 23 /\ n[5] <= 59 /\ n[6] <= 59

\* A number in w digits, zero-padded.
RECURSIVE Pad(_, _)
Pad(k, w) == IF w = 0 THEN <<>> ELSE Pad(k \div 10, w - 1) \o <<DigitChar(k % 10)>>

\* YYYYMMDDhhmmss, 14 bytes.
CompactText(n) ==
    Pad(n[1], 4) \o Pad(n[2], 2) \o Pad(n[3], 2) \o Pad(n[4], 2) \o Pad(n[5], 2) \o Pad(n[6], 2)

\* YYYY-MM-DD hh:mm:ss, 19 bytes, with the bytes a and b between date and
\* time fields and c between the two.
SeparatedText(n, a, c, b) ==
    Pad(n[1], 4) \o <<a>> \o Pad(n[2], 2) \o <<a>> \o Pad(n[3], 2) \o <<c>>
    \o Pad(n[4], 2) \o <<b>> \o Pad(n[5], 2) \o <<b>> \o Pad(n[6], 2)

SpacedText(n) == SeparatedText(n, "-", " ", ":")

\* The spaced form with no padding of the fields after the year.
UnpaddedText(n) ==
    Pad(n[1], 4) \o <<"-">> \o ToDigits(n[2]) \o <<"-">> \o ToDigits(n[3]) \o <<" ">>
    \o ToDigits(n[4]) \o <<":">> \o ToDigits(n[5]) \o <<":">> \o ToDigits(n[6])

StampValue(n) ==
    [year |-> n[1], month |-> n[2], day |-> n[3],
     hour |-> n[4], minute |-> n[5], second |-> n[6]]

\* Strings of 14 or 19 bytes in the form of their length: "stamp" where the
\* numbers are on the calendar, "invalid" where they are not.
FormedStamps ==
    UNION {{Piece(IF OnCalendar(n) THEN "stamp" ELSE "invalid", Quoted(t), StampValue(n)) :
                t \in {CompactText(n), SpacedText(n)}} : n \in StampNumbers}

\* Strings of 14 or 19 bytes that are not in the form of their length.
MisformedTexts ==
    {UnpaddedText(<<2020, 1, 2, 3, 4, 5>>),
      CompactText(<<2020, 2, 1, 15, 15, 54>>) \o <<"0", "0", "0", "0", "0">>,
      SeparatedText(<<2020, 2, 1, 15, 15, 54>>, "-", "T", ":"),
      SeparatedText(<<2020, 2, 1, 15, 15, 54>>, "/", " ", ":"),
      SeparatedText(<<2020, 2, 1, 15, 15, 54>>, "-", " ", "."),
      <<"2", "0", "2", "0", "0", "2", "0", "1", "1", "5", "1", "5", "5", "x">>, <<"a", "b", "c", "d", "e", "f", "g", "h", "i", "j", "k", "l", "m", "n">>}

\* Strings of other lengths, made from date-times on the calendar: a byte
\* less, a byte more, fields without padding, a date alone, a year with a
\* sign and with more digits, whitespace in front of a field, nothing.
OtherLengthTexts ==
    UNION { {SubSeq(CompactText(n), 1, 13), CompactText(n) \o <<"0">>,
              SubSeq(SpacedText(n), 1, 18), SpacedText(n) \o <<"0">>,
              SubSeq(SpacedText(n), 1, 10), SubSeq(SpacedText(n), 1, 16),
              UnpaddedText(n),
              <<"+">> \o SpacedText(n), <<"-">> \o SpacedText(n),
              <<"+", "0", "0", "0">> \o SpacedText(n),
              <<"+", "9", "9">> \o SpacedText(n),
              <<"+", "9", "9", "9", "9", "9", "9", "9">> \o SpacedText(n),
              <<"\f">> \o SpacedText(n), <<" ", VT>> \o CompactText(n),
              NBSP \o SpacedText(n),
              SubSeq(SpacedText(n), 1, 5) \o <<"\t">> \o SubSeq(SpacedText(n), 6, 19),
              SubSeq(SpacedText(n), 1, 11) \o NBSP \o SubSeq(SpacedText(n), 12, 19),
              <<NBSP[1]>> \o SpacedText(n)} :
            n \in {m \in StampDates : OnCalendar(m) /\ m[1] = 2020}}
    \cup {<<>>}

\* Quoted strings for Timestamp::from_sql.
TimestampInputs(T) ==
    IF T # "Timestamp" THEN {}
    ELSE {<<p, tl>> :
              p \in FormedStamps
                    \cup {Piece("misformed", Quoted(t), <<>>) : t \in MisformedTexts}
                    \cup {Piece("length", Quoted(t), <<>>) :
                              t \in {o \in OtherLengthTexts : Len(o) \notin {14, 19}}},
              tl \in EnumTails}

ScalarTypes ==
    PrefixTypes \cup OptionTypes \cup EnumTypes
    \cup {"PageRestrictionsOld", "Timestamp", "Expiry"}

\* The buffers handed to T::from_sql.
ScalarInputs(T) ==
    PrefixInputs(T) \cup EscapedInputs(T) \cup OptionInputs(T) \cup IntInputs(T)
    \cup EnumInputs(T) \cup RestrictionInputs(T) \cup TimestampInputs(T)
    \cup UnquotedInputs(T)

(***************************************************************************)
(* Inputs of examples/test.rs                                              *)
(***************************************************************************)
\* page_tuple: the segments between the commas of the tuple.
page_tuple ==
    << <<"7">>,
       <<"4">>,
       <<"'", "G", "N", "U", "_", "F", "r", "e", "e", "_", "D", "o", "c", "u", "m", "e", "n", "t", "a", "t", "i", "o", "n", "_", "L", "i", "c", "e", "n", "s", "e", "'">>,
       <<"'", "'">>,
       <<"0">>,
       <<"0">>,
       <<"0", ".", "4", "9", "2", "8", "1", "5", "2", "4", "2", "6", "0", "7", "9", "0", "6">>,
       <<"'", "2", "0", "2", "0", "0", "2", "0", "1", "1", "5", "1", "5", "5", "4", "'">>,
       <<"'", "2", "0", "2", "0", "0", "2", "0", "1", "1", "5", "1", "6", "2", "3", "'">>,
       <<"2", "8", "8", "6", "3", "8", "1", "5">>,
       <<"2", "7", "7", "7">>,
       <<"'", "w", "i", "k", "i", "t", "e", "x", "t", "'">>,
       <<"N", "U", "L", "L">> >>

\* The values put in the place of a segment.
random_values == {<<"6", "6", "6">>, <<"'", "6", "6", "6", "'">>, <<"6", "6", ".", "6">>, <<"N", "U", "L", "L">>}

\* .join_with(","), and the parentheses put around it.
RECURSIVE join_segments(_)
join_segments(segments) ==
    IF Len(segments) = 0 THEN <<>>
    ELSE IF Len(segments) = 1 THEN segments[1]
    ELSE segments[1] \o <<",">> \o join_segments(Tail(segments))

bad_page_tuple(i, random_value) ==
    <<"(">> \o join_segments([page_tuple EXCEPT ![i + 1] = random_value]) \o <<")">>

\* The buffers main parses: `test`, and page_tuple with segment i replaced.
TestInputs ==
    {<<Piece("test", bad_page_tuple(1, <<"6", "6", ".", "6">>), [i |-> 1, value |-> <<"6", "6", ".", "6">>])>>}
    \cup {<<Piece("bad", bad_page_tuple(i, v), [i |-> i, value |-> v])>> :
              i \in 0..(Len(page_tuple) - 1), v \in random_values}

(***************************************************************************)
(* Inputs for the string types: contents that are and are not UTF-8        *)
(***************************************************************************)
\* The most whole characters in a content.
MaxChunks == 2

\* Whole characters: a letter, and a character of two bytes.
Utf8Chunks == {<<"a">>, <<LeadByte, ContinuationByte>>}

RECURSIVE Flatten(_)
Flatten(chunks) == IF Len(chunks) = 0 THEN <<>> ELSE chunks[1] \o Flatten(Tail(chunks))

Utf8Texts == {Flatten(c) : c \in UNION {[1..n -> Utf8Chunks] : n \in 0..MaxChunks}}

\* What makes a content invalid: a byte of no sequence, a sequence cut
\* after its first byte, a second byte with no first.
Defects == {<<BadByte>>, <<LeadByte>>, <<ContinuationByte>>}

NotUtf8Texts == {pre \o d \o post : pre \in Utf8Texts, d \in Defects, post \in Utf8Texts}

\* A content with whether it is valid UTF-8.
Contents ==
    {[bytes |-> t, valid |-> TRUE] : t \in Utf8Texts}
    \cup {[bytes |-> t, valid |-> FALSE] : t \in NotUtf8Texts}

\* A few contents for the fields next to the one that varies.
FewContents ==
    {[bytes |-> <<"a">>, valid |-> TRUE],
      [bytes |-> <<LeadByte, ContinuationByte>>, valid |-> TRUE],
      [bytes |-> <<"a", LeadByte>>, valid |-> FALSE]}

\* A categorylinks tuple with the given contents of to, sortkey,
\* sortkey_prefix and collation.
CategoryLinkText(to, sortkey, prefix, collation) ==
    <<"(", "1", ",">> \o Quoted(to) \o <<",">> \o Quoted(sortkey) \o <<",">>
    \o Quoted(<<"2", "0", "2", "0", "0", "2", "0", "1", "1", "5", "1", "5", "5", "4">>) \o <<",">> \o Quoted(prefix) \o <<",">>
    \o Quoted(collation) \o <<",">> \o Quoted(<<"p", "a", "g", "e">>) \o <<")">>

\* For a string type: a quoted content and what follows it.  For
\* CategoryLink: a tuple.
Utf8Inputs(T) ==
    IF T \in StringTypes
    THEN {<<Piece("content", Quoted(c.bytes), c), tl>> :
              c \in Contents, tl \in {Piece("end", <<>>, <<>>), Comma}}
    ELSE {<<Piece("categorylink",
                  CategoryLinkText(to.bytes, key.bytes, pre.bytes, col.bytes),
                  [to |-> to, sortkey |-> key, sortkey_prefix |-> pre, collation |-> col]),
            Comma>> :
              to \in FewContents, key \in Contents, pre \in FewContents, col \in FewContents}

(***************************************************************************)
(* Inputs for two iterators over one buffer                                *)
(***************************************************************************)
\* Tuples in the first statement of a buffer read by two iterators.
MaxDualTuples == 2

\* Two well-formed tuples and one that is cut before its `)`.
DualTuples(rt) ==
    {GoodTuple(rt, DiagPick(rt, 1)), GoodTuple(rt, DiagPick(rt, 2)),
     NoCloseTuple(rt, DiagPick(rt, 1))}

DualLists(rt) == UNION {[1..n -> DualTuples(rt)] : n \in 1..MaxDualTuples}

\* One statement and an ending, or two statements and the trailer.
DualScripts(rt) ==
    {Statement(TableNameText(rt), ts) \o <<e>> :
        ts \in DualLists(rt), e \in {Trailer, Piece("end", <<>>, <<>>)}}
    \cup {Statement(TableNameText(rt), ts) \o <<sp>>
          \o Statement(TableNameText(rt), <<GoodTuple(rt, DiagPick(rt, d))>>) \o <<Trailer>> :
             ts \in DualLists(rt), sp \in StmtSeps, d \in 1..2}

RECURSIVE Concat(_)
Concat(pieces) ==
    IF Len(pieces) = 0 THEN <<>> ELSE pieces[1].text \o Concat(Tail(pieces))

\* The index in the buffer of the first byte of piece k.
Offset(pieces, k) == 1 + Len(Concat(SubSeq(pieces, 1, k - 1)))

(***************************************************************************)
(* The program: a caller picks a row type and a buffer, then either parses *)
(* one tuple with from_sql_tuple, or creates an iterator with              *)
(* iterate_sql_insertions, calls next() on it and ends with finish().      *)
(***************************************************************************)
VARIABLES
    rowType,    \* the caller's type: the Row of the iterator or of
                \* from_sql_tuple, or the T of T::from_sql
    script,     \* the pieces the buffer was assembled from
    sql,        \* the buffer
    pc,         \* "start", "iter", "parsed", "finished" or "panicked"
    input,      \* ParserIterator.input, an index into sql
    state,      \* ParserIterator.state: "None" or Some of "Running", "Done",
                \* "Failure", "Incomplete"
    err,        \* the error held by State::Failure
    rows,       \* the items next() has returned, with the bytes of each
    res,        \* the result of finish() or of from_sql_tuple
    out,        \* what the caller has printed
    other       \* a second iterator over the buffer, when there is one

vars == <<rustc, rowType, script, sql, pc, input, state, err, rows, res, out, other>>

NoResult == [k |-> "None", i |-> 0, v |-> NoValue, e |-> NoError]

\* No second iterator.
NoIterator ==
    [pc |-> "none", from |-> 0, input |-> 0, state |-> "None", err |-> NoError,
     rows |-> <<>>, res |-> NoResult]

\* The toolchains that build different programs for a caller of type T:
\* both when T or the type of a field of T is written with generic
\* arguments in a stringify!, one otherwise.
ToolchainsFor(T) ==
    IF T \in NotNanTypes
       \/ (T \in RowTypes \cup {"Page", "CategoryLink"}
           /\ \E n \in 1..Len(Schema(T)) : Schema(T)[n].type \in NotNanTypes)
    THEN Toolchains
    ELSE {"joined"}

Init ==
    /\ rowType \in RowTypes
    /\ script \in Scripts(rowType) \cup TupleInputs(rowType)
    /\ sql = Concat(script)
    /\ pc = "start"
    /\ input = 1
    /\ state = "None"
    /\ err = NoError
    /\ rows = <<>>
    /\ res = NoResult
    /\ out = <<>>
    /\ other = NoIterator
    /\ rustc \in ToolchainsFor(rowType)

\* iterate_sql_insertions::<Row>(sql): expect() panics when there is no
\* INSERT INTO, otherwise the iterator starts Running at its first occurrence.
Create ==
    /\ pc = "start"
    /\ LET at == find(sql, INSERT_INTO, 1)
       IN  IF at = 0
           THEN /\ pc' = "panicked"
                /\ UNCHANGED <<input, state>>
           ELSE /\ pc' = "iter"
                /\ input' = at
                /\ state' = "Running"
    /\ UNCHANGED <<rustc, rowType, script, sql, err, rows, res, out, other>>

\* Row::from_sql_tuple(sql)
CallFromSqlTuple ==
    /\ pc = "start"
    /\ res' = from_sql_tuple(rowType, sql, 1)
    /\ pc' = "parsed"
    /\ UNCHANGED <<rustc, rowType, script, sql, input, state, err, rows, out, other>>

\* The iterator becomes n and the item of n, if any, is added to rows.
Becomes(n) ==
    /\ state' = n.state
    /\ input' = n.input
    /\ err' = n.err
    /\ rows' = rows \o n.item

\* (&mut iter).next(): self.state.take().unwrap() panics on an empty Option.
IterNext ==
    /\ pc = "iter"
    /\ IF state = "None"
       THEN /\ pc' = "panicked"
            /\ UNCHANGED <<input, state, err, rows>>
       ELSE /\ Becomes(ParserIterator_next(rowType, sql, state, input))
            /\ pc' = pc
    /\ UNCHANGED <<rustc, rowType, script, sql, res, out, other>>

\* iter.finish(): consumes the iterator; state keeps what finish() found.
Finish ==
    /\ pc = "iter"
    /\ IF state = "None"
       THEN /\ pc' = "panicked"
            /\ res' = res
       ELSE /\ pc' = "finished"
            /\ res' = ParserIterator_finish(state, input, err)
    /\ UNCHANGED <<rustc, rowType, script, sql, input, state, err, rows, out, other>>

Next == Create \/ CallFromSqlTuple \/ IterNext \/ Finish

Spec == Init /\ [][Next]_vars

TypeOK ==
    /\ rustc \in Toolchains
    /\ rowType \in RowTypes
    /\ pc \in {"start", "iter", "parsed", "finished", "panicked"}
    /\ input \in 1..(Len(sql) + 1)
    /\ state \in {"None", "Running", "Done", "Failure", "Incomplete"}
    /\ res.k \in {"None", "Ok", "Error", "Failure", "Incomplete"}

(***************************************************************************)
(* A caller of the scalar parse trait: it picks a type T and a buffer and  *)
(* calls T::from_sql on it once.                                           *)
(***************************************************************************)
ScalarInit ==
    /\ rowType \in ScalarTypes
    /\ script \in ScalarInputs(rowType)
    /\ sql = Concat(script)
    /\ pc = "start"
    /\ input = 1
    /\ state = "None"
    /\ err = NoError
    /\ rows = <<>>
    /\ res = NoResult
    /\ out = <<>>
    /\ other = NoIterator
    /\ rustc \in ToolchainsFor(rowType)

\* T::from_sql(sql)
CallFromSql ==
    /\ pc = "start"
    /\ res' = from_sql(rowType, sql, 1)
    /\ pc' = "parsed"
    /\ UNCHANGED <<rustc, rowType, script, sql, input, state, err, rows, out, other>>

ScalarNext == CallFromSql

ScalarSpec == ScalarInit /\ [][ScalarNext]_vars

(***************************************************************************)
(* examples/test.rs: main parses a Page tuple with from_sql_tuple and      *)
(* prints the page or the error.                                           *)
(***************************************************************************)
TestInit ==
    /\ rowType = "Page"
    /\ script \in TestInputs
    /\ sql = Concat(script)
    /\ pc = "start"
    /\ input = 1
    /\ state = "None"
    /\ err = NoError
    /\ rows = <<>>
    /\ res = NoResult
    /\ out = <<>>
    /\ other = NoIterator
    /\ rustc \in ToolchainsFor(rowType)

\* What the match on the result prints.
printed(s, r) ==
    IF r.k = "Ok" THEN <<Line("Page", "", <<r.v>>)>>
    ELSE IF r.k = "Incomplete" THEN <<Line("incomplete", "", <<>>)>>
    ELSE fmt(s, r.e)

\* println!("{:?}", page), println!("incomplete") or println!("{}", e)
PrintResult ==
    /\ pc = "parsed"
    /\ out' = printed(sql, res)
    /\ pc' = "printed"
    /\ UNCHANGED <<rustc, rowType, script, sql, input, state, err, rows, res, other>>

TestNext == CallFromSqlTuple \/ PrintResult

TestSpec == TestInit /\ [][TestNext]_vars

(***************************************************************************)
(* A caller that parses one string field with T::from_sql, or one          *)
(* categorylinks tuple with CategoryLink::from_sql_tuple.                  *)
(***************************************************************************)
Utf8Init ==
    /\ rowType \in StringTypes \cup {"CategoryLink"}
    /\ script \in Utf8Inputs(rowType)
    /\ sql = Concat(script)
    /\ pc = "start"
    /\ input = 1
    /\ state = "None"
    /\ err = NoError
    /\ rows = <<>>
    /\ res = NoResult
    /\ out = <<>>
    /\ other = NoIterator
    /\ rustc \in ToolchainsFor(rowType)

ParseField == rowType \in StringTypes /\ CallFromSql

ParseCategoryLink == rowType = "CategoryLink" /\ CallFromSqlTuple

\* println!("{}", e) for the error of a parse that failed
PrintError ==
    /\ pc = "parsed"
    /\ res.k \in {"Error", "Failure"}
    /\ out' = fmt(sql, res.e)
    /\ pc' = "printed"
    /\ UNCHANGED <<rustc, rowType, script, sql, input, state, err, rows, res, other>>

Utf8Next == ParseField \/ ParseCategoryLink \/ PrintError

Utf8Spec == Utf8Init /\ [][Utf8Next]_vars

(***************************************************************************)
(* Two callers, each with an iterator of its own over the buffer, the      *)
(* second one made from the slice of the buffer that starts at `from`.     *)
(* Each runs `for row in &mut iter`, which calls next() until it returns   *)
(* None, and may end with finish(); their steps interleave in any order.   *)
(***************************************************************************)
\* Where the slice of the second caller may start: at the first byte, at
\* the second, and at a later statement.
Starts(pieces) ==
    {1, 2} \cup {Offset(pieces, k) : k \in {n \in 2..Len(pieces) : pieces[n].kind = "head"}}

DualInit ==
    /\ rowType \in RowTypes
    /\ script \in DualScripts(rowType)
    /\ sql = Concat(script)
    /\ pc = "start"
    /\ input = 1
    /\ state = "None"
    /\ err = NoError
    /\ rows = <<>>
    /\ res = NoResult
    /\ out = <<>>
    /\ other = NoIterator
    /\ rustc \in ToolchainsFor(rowType)

\* An iterator that is given the slice it was called on, and not the part
\* of it from the first `INSERT INTO` on.
created_WholeSlice(from, at) ==
    IF at = 0
    THEN [NoIterator EXCEPT !.pc = "panicked", !.from = from]
    ELSE [NoIterator EXCEPT !.pc = "iter", !.from = from, !.input = from,
                            !.state = "Running"]

\* The iterator made at index at of the buffer by a call on the slice that
\* starts at from; at is 0 when expect() panics.
created(from, at) ==
    IF at = 0
    THEN [NoIterator EXCEPT !.pc = "panicked", !.from = from]
    ELSE [NoIterator EXCEPT !.pc = "iter", !.from = from, !.input = at,
                            !.state = "Running"]

\* iterate_sql_insertions::<Row>(&sql[from..]) by the second caller
CreateOther ==
    /\ other.pc = "none"
    /\ \E from \in Starts(script) : other' = created(from, find(sql, INSERT_INTO, from))
    /\ UNCHANGED <<rustc, rowType, script, sql, pc, input, state, err, rows, res, out>>

\* The second iterator becomes n: its fields are its own.
OtherBecomes(n) ==
    /\ other' = [other EXCEPT !.state = n.state, !.input = n.input, !.err = n.err,
                              !.rows = @ \o n.item]
    /\ UNCHANGED <<input, state, err, rows>>

\* next() in the loop of the first caller
FirstNext == state = "Running" /\ IterNext

\* next() in the loop of the second caller
OtherNext ==
    /\ other.pc = "iter"
    /\ other.state = "Running"
    /\ OtherBecomes(ParserIterator_next(rowType, sql, other.state, other.input))
    /\ UNCHANGED <<rustc, rowType, script, sql, pc, res, out>>

\* finish() by the second caller
OtherFinish ==
    /\ other.pc = "iter"
    /\ other' = [other EXCEPT !.pc = "finished",
                              !.res = ParserIterator_finish(other.state, other.input, other.err)]
    /\ UNCHANGED <<rustc, rowType, script, sql, pc, input, state, err, rows, res, out>>

DualNext == Create \/ CreateOther \/ FirstNext \/ OtherNext \/ Finish \/ OtherFinish

DualSpec == DualInit /\ [][DualNext]_vars

(***************************************************************************)
(* error.rs: the operations on Error, as a parser built from nom's         *)
(* combinators calls them.  err is the error in hand, res the failed       *)
(* first branch of an alternative, out the last call with its arguments,   *)
(* input the number of calls made.                                         *)
(***************************************************************************)
\* The most calls in a run.
MaxCalls == 5

ErrorPositions == {1, 2}

ErrorLabels == {"A", "B"}

ErrorKinds == {"Tag", "Char"}

ErrorInit ==
    /\ rowType = "Error"
    /\ script = <<>>
    /\ sql = <<>>
    /\ pc = "start"
    /\ input = 0
    /\ state = "None"
    /\ err = NoError
    /\ rows = <<>>
    /\ res = NoResult
    /\ out = <<>>
    /\ other = NoIterator
    /\ rustc \in ToolchainsFor(rowType)

\* The record of a call: the operation, its position and label or kind, and
\* the errors it was given.
Call(op, pos, name, self, arg) ==
    <<[op |-> op, pos |-> pos, name |-> name, self |-> self, arg |-> arg]>>

\* A call is made: the error in hand becomes e.
Called(e, call) ==
    /\ input < MaxCalls
    /\ input' = input + 1
    /\ err' = e
    /\ out' = call
    /\ UNCHANGED <<rustc, rowType, script, sql, pc, state, rows, other>>

\* A primitive parser fails: Error::from_error_kind(input, kind)
FromErrorKind ==
    /\ err = NoError
    /\ \E pos \in ErrorPositions, kind \in ErrorKinds :
          Called(from_error_kind(pos, kind), Call("from_error_kind", pos, kind, err, err))
    /\ UNCHANGED res

\* Error::append(input, kind, other)
AppendCall ==
    /\ err # NoError
    /\ \E pos \in ErrorPositions, kind \in ErrorKinds :
          Called(append(pos, kind, err), Call("append", pos, kind, err, err))
    /\ UNCHANGED res

\* Error::add_context(input, label, other)
AddContextCall ==
    /\ err # NoError
    /\ \E pos \in ErrorPositions, label \in ErrorLabels :
          Called(add_context(pos, label, err), Call("add_context", pos, label, err, err))
    /\ UNCHANGED res

\* The first branch of an alternative has failed with the error in hand;
\* the second branch starts.
BranchFailed ==
    /\ err # NoError
    /\ res = NoResult
    /\ res' = Err("Error", err)
    /\ err' = NoError
    /\ out' = <<>>
    /\ UNCHANGED <<rustc, rowType, script, sql, pc, input, state, rows, other>>

\* The second branch has failed too: self.or(other), self being the error of
\* the first branch.
OrCall ==
    /\ err # NoError
    /\ res.k = "Error"
    /\ Called(or(res.e, err), Call("or", 0, "", res.e, err))
    /\ res' = NoResult

ErrorNext == FromErrorKind \/ AppendCall \/ AddContextCall \/ BranchFailed \/ OrCall

ErrorSpec == ErrorInit /\ [][ErrorNext]_vars

(***************************************************************************)
(* Running an iterator to its end, as `for row in &mut iter` and           *)
(* iter.count() do: the items yielded from (state, input) on.              *)
(***************************************************************************)
RECURSIVE Drain(_, _, _, _, _)
RECURSIVE DrainFrom(_, _, _, _)
Drain(rt, s, st, inp, acc) ==
    IF st # "Running" THEN acc
    ELSE DrainFrom(rt, s, acc, ParserIterator_next(rt, s, st, inp))

\* n is the iterator after one more next()
DrainFrom(rt, s, acc, n) == Drain(rt, s, n.state, n.input, acc \o n.item)

(***************************************************************************)
(* Vocabulary of the properties                                            *)
(***************************************************************************)
TupleKinds == {"good", "nocomma", "trailcomma", "badfield", "noopen", "noclose"}

\* The values of a sequence of yielded items.
RowVals(items) == [n \in 1..Len(items) |-> items[n].val]

\* The piece indices of the tuples of the script, as a set.
TupleIdx(pieces) == {k \in 1..Len(pieces) : pieces[k].kind \in TupleKinds}

\* The rows the well-formed tuples among pieces[from..] denote, in order.
RECURSIVE ExpectedFrom(_, _, _)
ExpectedFrom(rt, pieces, from) ==
    IF from > Len(pieces) THEN <<>>
    ELSE (IF pieces[from].kind = "good"
          THEN <<ExpectedRow(rt, pieces[from].pick)>>
          ELSE <<>>) \o ExpectedFrom(rt, pieces, from + 1)

\* The script is one or more statements of well-formed tuples and nothing else
\* but the separators between them and the mysqldump trailer.
AllGood(pieces) ==
    /\ pieces[1].kind = "head"
    /\ pieces[Len(pieces)].kind = "trailer"
    /\ \A k \in 1..Len(pieces) :
           pieces[k].kind \in {"head", "good", "comma", "stmtsep", "trailer"}

NumHeads(pieces) == Cardinality({k \in 1..Len(pieces) : pieces[k].kind = "head"})

\* An iterator exists, or existed until finish() or a panic ended it.
Created == pc \in {"iter", "finished", "panicked"} /\ find(sql, INSERT_INTO, 1) # 0

\* next() has returned None at least once.
Ended == Created /\ state # "Running"

TrailerStart == <<";", "\n", "/", "*">>

\* C1: for one statement of N >= 1 well-formed tuples separated by single
\* commas and followed by the trailer, the iterator has yielded exactly N
\* rows when it ends, and finish() then succeeds with a remaining input that
\* begins with the four bytes `;\n/*`.
C1_StreamingInvariant ==
    (AllGood(script) /\ NumHeads(script) = 1 /\ Ended)
    => /\ Len(rows) = Cardinality(TupleIdx(script))
       /\ pc = "finished"
          => /\ res.k = "Ok"
             /\ SubSeq(sql, res.i, res.i + 3) = TrailerStart

C1_Witness ==
    /\ AllGood(script) /\ NumHeads(script) = 1
    /\ pc = "finished" /\ state = "Done"
    /\ Len(rows) = 2
    /\ res.k = "Ok"

\* C2: two statements for the same table with a semicolon and whitespace
\* between them yield the rows of the first followed by the rows of the
\* second, in order, none lost and none duplicated.
C2_StatementBoundaryCrossing ==
    (AllGood(script) /\ NumHeads(script) = 2 /\ Created)
    => /\ Len(rows) <= Len(ExpectedFrom(rowType, script, 1))
       /\ RowVals(rows) = SubSeq(ExpectedFrom(rowType, script, 1), 1, Len(rows))
       /\ Ended => Len(rows) = Len(ExpectedFrom(rowType, script, 1))

C2_Witness ==
    /\ AllGood(script) /\ NumHeads(script) = 2
    /\ Ended
    /\ Len(rows) = 4
    /\ rows[2].val # rows[3].val

\* C3: when a field of the tuple at piece k fails to parse, no row is yielded
\* for that tuple or for any tuple after it, and the cursor never moves past
\* the separator in front of that tuple.
C3_TupleAtomicity ==
    \A k \in 1..Len(script) :
        (script[1].kind = "head" /\ script[k].kind = "badfield" /\ Created)
        => /\ Len(rows) <= Cardinality({j \in TupleIdx(script) : j < k})
           /\ input <= Offset(script, k - 1)

C3_Witness ==
    /\ script[1].kind = "head"
    /\ \E k \in 1..Len(script) :
           /\ script[k].kind = "badfield"
           /\ \E j \in (k + 1)..Len(script) : script[j].kind = "good"
           /\ input = Offset(script, k - 1)
    /\ pc = "iter" /\ state = "None"
    /\ Len(rows) = 1

\* C4: every tuple-parse failure after a matched separator (a failing field,
\* a missing `(`, a missing `,` between fields, a missing `)`) makes
\* finish() report an error once the iterator has ended.
C4_FailureBubbles ==
    (/\ script[1].kind = "head"
     /\ \E k \in 1..Len(script) :
            script[k].kind \in {"badfield", "noopen", "nocomma", "noclose"}
     /\ Ended /\ pc = "finished")
    => res.k # "Ok"

\* C5: the cursor never moves backwards, and each yielded row was parsed from
\* bytes that lie after the bytes of the row yielded before it.
RowsInOrder(items) ==
    /\ \A n \in 1..Len(items) : items[n].from < items[n].to
    /\ \A n \in 1..(Len(items) - 1) : items[n].to <= items[n + 1].from

C5_NoRewind == [][input' >= input /\ RowsInOrder(rows')]_vars

C5_Witness ==
    /\ Len(rows) = 4
    /\ rows[1].from < rows[2].from
    /\ rows[2].from < rows[3].from
    /\ rows[3].from < rows[4].from
    /\ input = rows[4].to

\* C6: from_sql_tuple on a tuple of valid literals, one per declared field in
\* declaration order, returns the record whose fields hold the values of
\* those literals and a rest that starts right after the closing `)`.
C6_TupleParse ==
    (pc = "parsed" /\ script[1].kind = "good")
    => /\ res.k = "Ok"
       /\ res.v = ExpectedRow(rowType, script[1].pick)
       /\ res.i = Len(script[1].text) + 1

C6_Witness ==
    /\ pc = "parsed" /\ script[1].kind = "good"
    /\ rowType = "Redirect"
    /\ script[1].pick = <<3, 2, 3, 2, 1>>
    /\ res.k = "Ok"
    /\ res.i <= Len(sql)

\* C7: a tuple in which a field value is directly followed by the next
\* field's value with no `,` between them is rejected.
C7_CommaRequired ==
    (pc = "parsed" /\ script[1].kind = "nocomma") => res.k # "Ok"

\* C8: a tuple with a `,` between its last field value and `)` is rejected.
C8_TrailingCommaRejected ==
    (pc = "parsed" /\ script[1].kind = "trailcomma") => res.k # "Ok"

\* C9: without any `INSERT INTO` in the buffer iterate_sql_insertions fails
\* at creation and nothing is yielded; otherwise the cursor of the new
\* iterator is at the first occurrence, past every byte of the preamble.
IsOccurrence(i) ==
    /\ i + Len(INSERT_INTO) - 1 <= Len(sql)
    /\ \A n \in 1..Len(INSERT_INTO) : sql[i + n - 1] = INSERT_INTO[n]

C9_FirstInsertInto ==
    /\ (pc \in {"iter", "finished", "panicked"} /\ ~ \E i \in 1..Len(sql) : IsOccurrence(i))
       => (pc = "panicked" /\ state = "None" /\ rows = <<>>)
    /\ (pc = "iter" /\ state = "Running" /\ rows = <<>>)
       => (IsOccurrence(input) /\ \A i \in 1..(input - 1) : ~ IsOccurrence(i))
    /\ pc \in {"iter", "finished"} => \E i \in 1..input : IsOccurrence(i)

C9_Witness ==
    /\ pc = "iter" /\ state = "Running" /\ rows = <<>>
    /\ script[1].kind = "pre"
    /\ input > 1
    /\ \E i \in (input + 1)..Len(sql) : IsOccurrence(i)

\* C10: the rows yielded for a statement head with any table name made of
\* lowercase letters and underscores are the rows yielded when the name is
\* that of the row type's table.
Renamed(pieces) ==
    [k \in 1..Len(pieces) |->
        IF pieces[k].kind = "head" THEN HeadPiece(TableNameText(rowType)) ELSE pieces[k]]

C10_TableNameUnchecked ==
    (script[1].kind = "head" /\ Ended)
    => RowVals(rows) = RowVals(Drain(rowType, Concat(Renamed(script)), "Running", 1, <<>>))

C10_Witness ==
    /\ script[1].kind = "head"
    /\ script[1].text = INSERT_INTO_BQ \o <<"_", "x">> \o BQ_VALUES
    /\ Ended
    /\ Len(rows) = 2

\* The table name between the back-quotes of a statement head piece.
HeadName(piece) ==
    SubSeq(piece.text, Len(INSERT_INTO_BQ) + 1, Len(piece.text) - Len(BQ_VALUES))

\* name matches [a-z_]+
IsTableName(name) ==
    /\ Len(name) >= 1
    /\ \A n \in 1..Len(name) : name[n] \in Lowercase \cup {"_"}

\* C11: a statement head whose back-quoted name is not a non-empty run of
\* lowercase letters and underscores is not a separator: the iterator that
\* starts at it yields no row and ends at once, its input not moved.
C11_TableNameShape ==
    (/\ script[1].kind \in {"head", "badhead"}
     /\ ~IsTableName(HeadName(script[1]))
     /\ Created)
    => /\ rows = <<>>
       /\ input = 1
       /\ state \in {"Running", "Done", "None"}

(***************************************************************************)
(* Properties of the scalar parsers, under ScalarSpec                      *)
(***************************************************************************)
\* C12: a scalar parser run on a buffer that ends while it is still a proper
\* prefix of a longer valid token (digits up to the end of the buffer, a
\* quoted string with no closing quote, a proper prefix of NULL) returns
\* Incomplete; a buffer that cannot begin a token gives an error and a whole
\* token followed by another byte gives Ok, so the three are told apart.
C12_StreamingIncomplete ==
    pc = "parsed"
    => /\ script[1].kind = "prefix" => res.k = "Incomplete"
       /\ script[1].kind = "malformed" => res.k = "Error"
       /\ script[1].kind = "complete" => res.k = "Ok"

C12_Witness ==
    /\ pc = "parsed"
    /\ rowType = "i32"
    /\ script[1].kind = "prefix"
    /\ sql = <<"-", "1">>
    /\ res.k = "Incomplete"

\* C13: the escaped byte-string parser decodes each listed escape sequence
\* to its listed byte and copies every plain byte unchanged, in order; a
\* backslash followed by any other byte makes the parse fail.
C13_EscapeFidelity ==
    (pc = "parsed" /\ rowType \in EscapedTypes)
    => /\ script[1].kind = "escaped" => (res.k = "Ok" /\ res.v = script[1].pick)
       /\ script[1].kind = "unknownescape" => res.k = "Error"

C13_Witness ==
    /\ pc = "parsed" /\ rowType = "Vec<u8>"
    /\ script[1].kind = "escaped"
    /\ script[1].text = <<"'", "a", "\\", "Z", "'">>
    /\ res.k = "Ok"
    /\ res.v = <<"a", "x1A">>

\* A quote of the content, written as backslash and quote, is in the value.
HasEscapedQuote(piece) == \E n \in 1..Len(piece.pick) : piece.pick[n] = "'"

\* C14: in the escaped string parsers a backslash-quote pair inside the
\* content never ends the string: the string ends at the closing quote, the
\* value holds the quote, and the bytes after the closing quote are left
\* unconsumed.
C14_StringTermination ==
    (pc = "parsed" /\ rowType \in EscapedTypes /\ script[1].kind = "escaped")
    => /\ res.k = "Ok"
       /\ res.i = Len(script[1].text) + 1
       /\ SubSeq(sql, res.i, Len(sql)) = script[2].text
       /\ HasEscapedQuote(script[1]) => res.v = script[1].pick

C14_Witness ==
    /\ pc = "parsed" /\ rowType = "String"
    /\ script[1].text = <<"'", "a", "\\", "'", "b", "'">>
    /\ script[2].text = <<"'", "b", "'">>
    /\ res.k = "Ok"
    /\ res.v = <<"a", "'", "b">>
    /\ res.i = 7

\* The result o of Option<T>::from_sql agrees with the results n of
\* <()>::from_sql and t of T::from_sql on the same buffer: absent where n is
\* Ok, present with the value and the rest of t where t is Ok, and n and t
\* are not both Ok.
Dichotomy(o, n, t) ==
    /\ n.k = "Ok" => (o.k = "Ok" /\ o.v = <<>> /\ o.i = n.i)
    /\ t.k = "Ok" => (o.k = "Ok" /\ o.v = <<t.v>> /\ o.i = t.i)
    /\ ~(n.k = "Ok" /\ t.k = "Ok")

\* C15: Option<T>::from_sql yields absent on the token NULL, consuming
\* exactly its four bytes, and present(v) with the same rest on every buffer
\* on which T::from_sql yields v; no buffer is accepted both as NULL and as
\* a T, for every T of an Option<T> field.
C15_NullDichotomy ==
    /\ (pc = "parsed" /\ rowType \in OptionTypes)
       => /\ Dichotomy(res, unit_from_sql(sql, 1), from_sql(OptionInner(rowType), sql, 1))
          /\ script[1].kind = "null" => (res.k = "Ok" /\ res.v = <<>> /\ res.i = 5)
          /\ script[1].kind = "present"
             => (/\ res.k = "Ok"
                 /\ res.v = <<script[1].pick>>
                 /\ res.i = Len(script[1].text) + 1)
    /\ (pc = "parsed" /\ rowType \in InnerTypes)
       => ~(unit_from_sql(sql, 1).k = "Ok" /\ res.k = "Ok")

C15_Witness ==
    /\ pc = "parsed" /\ rowType = "Option<String>"
    /\ script[1].kind = "present"
    /\ script[1].pick = <<"N">>
    /\ res.k = "Ok"
    /\ res.v = << <<"N">> >>

\* C16: an integer parser consumes the maximal run of digits, after one
\* optional `-` for the signed types, and returns its base-10 value when
\* that lies in the range of the type; it returns an error, not a wrapped or
\* truncated value, when the value is out of range or when there is no digit.
C16_IntegerRange ==
    (pc = "parsed" /\ rowType \in IntTypes)
    => /\ script[1].kind = "numeral"
          => IF script[1].pick.ok
             THEN /\ res.k = "Ok"
                  /\ res.v = script[1].pick.val
                  /\ res.i = Len(script[1].text) + 1
             ELSE res.k = "Error"
       /\ script[1].kind = "nodigit" => res.k = "Error"

C16_Witness ==
    /\ pc = "parsed" /\ rowType = "i16"
    /\ script[1].kind = "numeral"
    /\ script[1].text = <<"-", "0", "0", "3", "2", "7", "6", "8">>
    /\ res.k = "Ok"
    /\ res.v = 0 - 32768

\* The largest u64 is accepted and kept whole; one more is an error.
C16_WitnessWide ==
    /\ pc = "parsed" /\ rowType = "u64"
    /\ script[1].text = TwoPowMinus1(64)
    /\ res.k = "Ok"
    /\ res.v = <<"1", "8", "4", "4", "6", "7", "4", "4", "0", "7",
                 "3", "7", "0", "9", "5", "5", "1", "6", "1", "5">>

\* C17: for the closed enumeration PageType a quoted value other than page,
\* subcat and file is a parse error; for the open enumerations an
\* unrecognized value, a recognized one in another case included, never
\* fails and becomes Other(the value).
C17_EnumerationClosure ==
    (pc = "parsed" /\ rowType \in EnumTypes)
    => /\ script[1].kind = "unknown"
          => IF rowType = "PageType"
             THEN res.k = "Error"
             ELSE (res.k = "Ok" /\ res.v = Other(script[1].pick))
       /\ script[1].kind = "known"
          => (res.k = "Ok" /\ res.v = Variant(script[1].pick))

C17_Witness ==
    /\ pc = "parsed" /\ rowType = "ContentModel"
    /\ script[1].kind = "unknown"
    /\ script[1].pick = <<"s", "c", "r", "i", "b", "u", "n", "t", "o">>
    /\ res.k = "Ok"
    /\ res.v.variant = "Other"

\* PageType rejects a value in another case.
C17_WitnessClosed ==
    /\ pc = "parsed" /\ rowType = "PageType"
    /\ script[1].kind = "unknown"
    /\ script[1].pick = <<"P", "a", "g", "e">>
    /\ res.k = "Error"

\* C18: the page.restrictions string parses to the map it denotes: the
\* empty string to the empty map, a bare level to {All -> [level]},
\* `a1=l1:a2=l2` to {a1 -> [l1], a2 -> [l2]}, an empty level after `=` to the
\* level None, and a level list `l1,l2` to both levels in order.
C18_PageRestrictionsGrammar ==
    (pc = "parsed" /\ rowType = "PageRestrictionsOld" /\ script[1].kind = "restrictions")
    => /\ res.k = "Ok"
       /\ res.v = script[1].pick
       /\ res.i = Len(script[1].text) + 1

C18_Witness ==
    /\ pc = "parsed" /\ rowType = "PageRestrictionsOld"
    /\ script[1].kind = "restrictions"
    /\ script[1].text = Quoted(<<"m", "o", "v", "e", "=", ":", "e", "d", "i", "t", "=">>)
    /\ res.k = "Ok"
    /\ res.v = {Entry(Variant("Move"), <<Variant("None")>>),
                Entry(Variant("Edit"), <<Variant("None")>>)}

\* The map that parsing the quoted string gives.
ParsedRestrictions(str) == from_sql("PageRestrictionsOld", Quoted(str), 1).v

\* C19: a bare level list L parses to the same map as `all=L`, its levels
\* stored under the action All.
C19_BareLevelIsAll ==
    (pc = "parsed" /\ rowType = "PageRestrictionsOld" /\ script[1].kind = "barelevel")
    => /\ res.k = "Ok"
       /\ res.v = ParsedRestrictions(<<"a", "l", "l", "=">> \o script[1].pick)

\* C20: Timestamp::from_sql reads a quoted string of 14 bytes as
\* YYYYMMDDhhmmss and one of 19 bytes as YYYY-MM-DD hh:mm:ss, giving the
\* date-time it denotes, and fails on a string of any other length, on a
\* string not in the form of its length, and on a date or time that is not
\* on the calendar.
C20_TimestampByLength ==
    (pc = "parsed" /\ rowType = "Timestamp")
    => IF script[1].kind = "stamp"
       THEN /\ res.k = "Ok"
            /\ res.v = script[1].pick
            /\ res.i = Len(script[1].text) + 1
       ELSE res.k = "Error"

\* The fields of Page whose type is an integer or a wrapper of one.
IntegerFields ==
    {n \in 1..Len(Schema("Page")) :
        \/ Schema("Page")[n].type \in IntTypes
        \/ /\ Schema("Page")[n].type \in WrapperTypes
           /\ Wrapped(Schema("Page")[n].type) \in IntTypes}

Labels(lines) == {lines[n].label : n \in 1..Len(lines)}

\* C21: a Page tuple with 66.6 in the place of an integer field fails to
\* parse, and the printed error names that field and the page row and shows
\* the token 66.6 as the place of the error.
C21_FloatInIntegerField ==
    (pc = "printed" /\ script[1].pick.value = <<"6", "6", ".", "6">>
        /\ script[1].pick.i + 1 \in IntegerFields)
    => /\ res.k \in {"Error", "Failure"}
       /\ FieldLabel("Page", script[1].pick.i + 1) \in Labels(out)
       /\ RowLabel("Page") \in Labels(out)
       /\ out[1].at = <<<<"6", "6", ".", "6">>>>

\* C22: the byte-string types accept a content that is not valid UTF-8 and
\* give its bytes unchanged, so a categorylinks tuple parses whatever bytes
\* its sortkey holds, and the sortkey of the row is those bytes; the UTF-8
\* string types give the content when it is valid UTF-8 and fail with an
\* error when it is not.
C22_BytesAndUtf8 ==
    pc = "parsed"
    => /\ rowType \in {"&[u8]", "Vec<u8>"}
          => /\ res.k = "Ok"
             /\ res.v = script[1].pick.bytes
             /\ res.i = Len(script[1].text) + 1
       /\ rowType \in {"&str", "String"}
          => IF script[1].pick.valid
             THEN res.k = "Ok" /\ res.v = script[1].pick.bytes
             ELSE res.k = "Error"
       /\ rowType = "CategoryLink"
          => IF script[1].pick.to.valid /\ script[1].pick.collation.valid
             THEN /\ res.k = "Ok"
                  /\ res.v.sortkey = script[1].pick.sortkey.bytes
                  /\ res.v.sortkey_prefix = script[1].pick.sortkey_prefix.bytes
             ELSE res.k \in {"Error", "Failure"}

\* A sortkey cut in the middle of a two-byte character is kept as it is.
C22_Witness ==
    /\ pc = "parsed" /\ rowType = "CategoryLink"
    /\ script[1].pick.sortkey.bytes = <<"a", LeadByte>>
    /\ res.k = "Ok"
    /\ res.v.sortkey = <<"a", LeadByte>>

\* The same content in a UTF-8 string is an error.
C22_WitnessError ==
    /\ pc = "parsed" /\ rowType = "String"
    /\ script[1].pick.bytes = <<"a", LeadByte>>
    /\ res.k = "Error"

\* The head piece at which an iterator made from the slice that starts at
\* from begins: the first that lies in the slice, 0 when there is none.
FirstHead(pieces, from) ==
    LET heads == {k \in 1..Len(pieces) :
                      pieces[k].kind = "head" /\ Offset(pieces, k) >= from}
    IN  IF heads = {} THEN 0 ELSE CHOOSE k \in heads : \A j \in heads : k <= j

\* The piece at which an iteration that began at the head h ends: the first
\* after h that is neither a well-formed tuple nor what may stand between
\* two of them.
StopPiece(pieces, h) ==
    CHOOSE k \in (h + 1)..Len(pieces) :
        /\ pieces[k].kind \notin {"good", "comma", "stmtsep", "head"}
        /\ \A j \in (h + 1)..(k - 1) : pieces[j].kind \in {"good", "comma", "stmtsep", "head"}

\* The rows of that iteration: those of the tuples between h and the piece
\* at which it ends.
Yield(rt, pieces, h) == ExpectedFrom(rt, SubSeq(pieces, 1, StopPiece(pieces, h) - 1), h)

\* The index in the buffer after the n-th of these tuples, or of the head h
\* for n = 0.
InputAfter(pieces, h, n) ==
    LET tuples == {k \in h..(StopPiece(pieces, h) - 1) : pieces[k].kind = "good"}
    IN  IF n = 0 THEN Offset(pieces, h)
        ELSE Offset(pieces, 1 + CHOOSE k \in tuples :
                                    Cardinality({j \in tuples : j <= k}) = n)

\* The state in which that iteration ends: Incomplete when the buffer ends
\* with a well-formed tuple or inside a tuple, Done when it meets the
\* trailer or a tuple that is cut and followed by more bytes.
EndState(pieces, h) ==
    IF Offset(pieces, StopPiece(pieces, h) + 1) = Len(Concat(pieces)) + 1
       /\ pieces[StopPiece(pieces, h)].kind # "trailer"
    THEN "Incomplete"
    ELSE "Done"

\* An iterator with the fields (p, st, inp, rws, r), made from the slice of
\* the buffer that starts at from, is where the buffer and from alone put
\* it: it has yielded the first rows of its iteration, its input is after
\* the last of them, it has ended only after all of them and in the state
\* the end of the buffer decides, and finish() has returned Ok with that
\* input, or Incomplete.
OnItsOwn(rt, pieces, from, p, st, inp, rws, r) ==
    IF FirstHead(pieces, from) = 0 THEN p = "panicked"
    ELSE /\ p \in {"iter", "finished"}
         /\ Len(rws) <= Len(Yield(rt, pieces, FirstHead(pieces, from)))
         /\ RowVals(rws) = SubSeq(Yield(rt, pieces, FirstHead(pieces, from)), 1, Len(rws))
         /\ inp = InputAfter(pieces, FirstHead(pieces, from), Len(rws))
         /\ st \in {"Running", EndState(pieces, FirstHead(pieces, from))}
         /\ st # "Running" => Len(rws) = Len(Yield(rt, pieces, FirstHead(pieces, from)))
         /\ p = "finished"
            => IF st = "Incomplete" THEN r.k = "Incomplete"
               ELSE r.k = "Ok" /\ r.i = inp

\* C23: with two iterators over one buffer, the second made from a slice
\* of it, whatever the order of their next() calls each yields the rows and
\* ends with the input and the result of finish() that the buffer and the
\* start of its slice alone determine, the same as with no other iterator;
\* and two iterators made from the whole buffer end with the same rows, the
\* same input and the same state.
C23_IndependentIterators ==
    /\ pc # "start"
       => OnItsOwn(rowType, script, 1, pc, state, input, rows, res)
    /\ other.pc # "none"
       => OnItsOwn(rowType, script, other.from, other.pc, other.state, other.input,
                   other.rows, other.res)
    /\ (pc \in {"iter", "finished"} /\ other.pc \in {"iter", "finished"}
        /\ other.from = 1 /\ state # "Running" /\ other.state # "Running")
       => (other.rows = rows /\ other.input = input /\ other.state = state)

\* The first iterator has yielded a row of the first statement and the
\* second, made from a slice that begins at the second statement, a row of
\* that one; both are still running.
C23_WitnessSlice ==
    /\ pc = "iter" /\ other.pc = "iter" /\ other.from > 2
    /\ state = "Running" /\ other.state = "Running"
    /\ Len(rows) = 1 /\ Len(other.rows) = 1
    /\ other.input > input

\* Both iterators are in the middle of their runs, one row each.
C23_Witness ==
    /\ pc = "iter" /\ other.pc = "iter" /\ other.from = 1
    /\ state = "Running" /\ other.state = "Running"
    /\ Len(rows) = 1 /\ Len(other.rows) = 1

\* Both have ended, with two rows or more; the second began at a later
\* statement of the buffer.
C23_WitnessOverlap ==
    /\ pc = "finished" /\ other.pc = "finished" /\ other.from > 2
    /\ state = "Done" /\ other.state = "Done"
    /\ Len(rows) >= 2 /\ Len(other.rows) >= 1 /\ Len(other.rows) < Len(rows)

HasBackslash(bytes) == \E n \in 1..Len(bytes) : bytes[n] = "\\"

\* The raw result raw and the escaped result esc of one buffer: what the
\* raw parser accepts the escaped one accepts, and with no backslash in the
\* content both give the same bytes and the same rest.
MoreGeneral(raw, esc) ==
    raw.k = "Ok"
    => /\ esc.k = "Ok"
       /\ ~HasBackslash(raw.v) => (esc.v = raw.v /\ esc.i = raw.i)

\* C24: on every buffer, a quoted token that <&[u8]>::from_sql accepts is
\* accepted by <Vec<u8>>::from_sql, and when its content holds no backslash
\* the two give the same bytes and the same rest.
C24_EscapedMoreGeneral ==
    /\ (pc = "parsed" /\ rowType = "&[u8]") => MoreGeneral(res, vec_from_sql(sql, 1))
    /\ (pc = "parsed" /\ rowType = "Vec<u8>") => MoreGeneral(raw_bytes_from_sql(sql, 1), res)

IsStack(e) == e.t = "ErrorWithContexts"

Top(e) == e.ctx[Len(e.ctx)]

\* C25: after self.or(other), when both are context stacks whose top frames
\* are at the same position, the top frame of the result is one alternatives
\* frame at that position with the labels of self's top frame followed by
\* those of other's; when the two top frames are at different positions they
\* are not merged into one frame; when exactly one of them is a context
\* stack, the result is that stack.
C25_OrMergesSamePosition ==
    (out # <<>> /\ out[1].op = "or")
    => /\ (IsStack(out[1].self) /\ IsStack(out[1].arg)
           /\ Top(out[1].self).pos = Top(out[1].arg).pos)
          => /\ IsStack(err)
             /\ Top(err) = Alternatives(Top(out[1].self).pos,
                                        Top(out[1].self).labels \o Top(out[1].arg).labels)
       /\ (IsStack(out[1].self) /\ IsStack(out[1].arg)
           /\ Top(out[1].self).pos # Top(out[1].arg).pos)
          => Top(err).labels # Top(out[1].self).labels \o Top(out[1].arg).labels
       /\ (IsStack(out[1].self) /\ ~IsStack(out[1].arg)) => err = out[1].self
       /\ (~IsStack(out[1].self) /\ IsStack(out[1].arg)) => err = out[1].arg

\* C26: an error made by from_error_kind, append, or and add_context that
\* is a context stack has at least one frame; add_context on a kind error
\* gives the stack of the one frame {position, label}, and on a stack gives
\* the stack with that frame added after the frames it had.
C26_StackNeverEmpty ==
    /\ IsStack(err) => Len(err.ctx) >= 1
    /\ (out # <<>> /\ out[1].op = "add_context")
       => IF IsStack(out[1].self)
          THEN err = ErrorWithContexts(out[1].self.ctx \o <<Single(out[1].pos, out[1].name)>>)
          ELSE err = ErrorWithContexts(<<Single(out[1].pos, out[1].name)>>)

\* A context is added to a stack of two frames.
C26_Witness ==
    /\ out # <<>> /\ out[1].op = "add_context"
    /\ IsStack(out[1].self) /\ Len(out[1].self.ctx) = 2
    /\ Len(err.ctx) = 3

\* or has merged the one frame of each of two stacks.
C26_WitnessOr ==
    /\ out # <<>> /\ out[1].op = "or"
    /\ IsStack(out[1].self) /\ IsStack(out[1].arg)
    /\ Len(err.ctx) = 1 /\ Top(err).alt

\* The parts of a quoted page.restrictions string that are not empty, in
\* the order they are written.
RECURSIVE NonEmpty(_)
NonEmpty(parts) ==
    IF Len(parts) = 0 THEN <<>>
    ELSE IF Len(parts[1]) = 0 THEN NonEmpty(Tail(parts))
    ELSE <<parts[1]>> \o NonEmpty(Tail(parts))

PartsOf(text) == NonEmpty(split(SubSeq(text, 2, Len(text) - 1), ":"))

\* The action and the level list one part denotes.
PartEntry(part) == restriction(rsplitn2(part, "="))

\* The last part of the parts that names the action.
LastFor(parts, action) ==
    parts[CHOOSE n \in 1..Len(parts) :
            /\ PartEntry(parts[n]).key = action
            /\ \A k \in (n + 1)..Len(parts) : PartEntry(parts[k]).key # action]

\* The map has one entry for the action of every part, with the levels of
\* the last part of that action.
LaterWins(parts, map) ==
    \A n \in 1..Len(parts) :
        {x \in map : x.key = PartEntry(parts[n]).key}
            = {PartEntry(LastFor(parts, PartEntry(parts[n]).key))}

\* C27: when an action appears in more than one `:`-separated part of a
\* page.restrictions string, the map has exactly one entry for the action,
\* and its level list is that of the last such part.
C27_LaterWins ==
    (pc = "parsed" /\ rowType = "PageRestrictionsOld" /\ script[1].kind = "restrictions")
    => /\ res.k = "Ok"
       /\ LaterWins(PartsOf(script[1].text), res.v)

\* `edit` is given twice with different levels: the map has the second.
C27_Witness ==
    /\ pc = "parsed" /\ rowType = "PageRestrictionsOld"
    /\ script[1].kind = "restrictions"
    /\ script[1].text = Quoted(<<"e", "d", "i", "t", "=", "s", "y", "s", "o", "p", ":", "e", "d", "i", "t", "=">>)
    /\ res.k = "Ok"
    /\ res.v = {Entry(Variant("Edit"), <<Variant("None")>>)}

\* The first index at or after i that holds no whitespace; Len(s) + 1 when
\* only whitespace is left.
RECURSIVE PastSpace(_, _)
PastSpace(s, i) ==
    IF i <= Len(s) /\ s[i] \in Multispace THEN PastSpace(s, i + 1) ELSE i

\* The first index at or after i that holds no byte of a table name.
RECURSIVE PastName(_, _)
PastName(s, i) ==
    IF i <= Len(s) /\ s[i] \in TableNameBytes THEN PastName(s, i + 1) ELSE i

\* The bytes of s from i on begin with t.
IsAt(s, i, t) == i + Len(t) - 1 <= Len(s) /\ SubSeq(s, i, i + Len(t) - 1) = t

PastSemicolon(s, i) == IF IsAt(s, i, <<";">>) THEN i + 1 ELSE i

\* The index after the closing back-quote, ` VALUES` and one space, when a
\* table name starts at i; 0 otherwise.
PastValues(s, i) ==
    IF IsAt(s, PastName(s, i), BQ_VALUES) THEN PastName(s, i) + Len(BQ_VALUES) ELSE 0

\* The index after INSERT INTO, the back-quoted name, VALUES and one space,
\* when that stands at i; 0 otherwise.
PastInsert(s, i) ==
    IF IsAt(s, i, INSERT_INTO_BQ) THEN PastValues(s, i + Len(INSERT_INTO_BQ)) ELSE 0

\* The index after a statement head that stands at i: optional whitespace,
\* an optional `;`, optional whitespace, then INSERT INTO `name` VALUES and
\* one space; 0 when there is none.
PastHead(s, i) == PastInsert(s, PastSpace(s, PastSemicolon(s, PastSpace(s, i))))

\* Where a tuple has to start for the cursor i to be at an accepted
\* continuation: after a single `,`, or after a statement head.
Continuations(s, i) ==
    (IF IsAt(s, i, <<",">>) THEN {i + 1} ELSE {})
    \cup (IF PastHead(s, i) # 0 THEN {PastHead(s, i)} ELSE {})

\* A tuple of the row type stands at j.
TupleAt(rt, s, j) == IsAt(s, j, <<"(">>) /\ from_sql_tuple(rt, s, j).k = "Ok"

\* C28: next() yields a row only when the cursor is at a single `,` or at a
\* statement head (optional whitespace, optional `;`, optional whitespace,
\* INSERT INTO `name` VALUES and one space) with a tuple right behind it,
\* and the row is that tuple; with anything else at the cursor,
\* whitespace between `,` and `(` included, next() yields nothing, leaves
\* the cursor where it is and ends the iteration.
C28_OnlyContinuations ==
    [][(pc = "iter" /\ state = "Running" /\ pc' = "iter")
       => /\ (Len(rows') > Len(rows))
             => \E j \in Continuations(sql, input) :
                    /\ TupleAt(rowType, sql, j)
                    /\ rows'[Len(rows')].val = from_sql_tuple(rowType, sql, j).v
                    /\ input' = from_sql_tuple(rowType, sql, j).i
          /\ (\A j \in Continuations(sql, input) : ~IsAt(sql, j, <<"(">>))
             => /\ rows' = rows
                /\ input' = input
                /\ state' \in {"Done", "Incomplete"}]_vars

\* The iteration has ended at a `,` that has whitespace, then a well-formed
\* tuple behind it: one row was yielded, not two.
C28_Witness ==
    /\ pc = "iter" /\ state = "Done"
    /\ Len(rows) = 1
    /\ IsAt(sql, input, <<",", " ", "(">>)
    /\ TupleAt(rowType, sql, input + 2)

\* A row was yielded after a statement head that has no `;` in front.
C28_WitnessHead ==
    /\ pc = "iter" /\ state = "Running"
    /\ Len(rows) = 2
    /\ \E k \in 1..Len(script) :
           /\ script[k].kind = "gap"
           /\ script[k].text = <<"\n">> \o INSERT_INTO_BQ \o TableNameText(rowType) \o BQ_VALUES
           /\ rows[2].from = Offset(script, k)

\* The script is one statement of well-formed tuples, and the buffer ends
\* right after the `)` of the last one or after a `;` and whitespace.
EndsAfterTuples(pieces) ==
    /\ pieces[1].kind = "head"
    /\ pieces[Len(pieces)].kind = "end"
    /\ \A k \in 1..Len(pieces) : pieces[k].kind \in {"head", "good", "comma", "end"}

\* C29: when the buffer ends right after the `)` of the last tuple, or
\* after a `;` and whitespace behind it, every row before that point is
\* yielded, the iterator ends for lack of input with its cursor behind the
\* last tuple (a further next() leaves it without a state), and finish()
\* reports Incomplete, neither Ok with a remaining input nor an error.
C29_IncompleteAtEnd ==
    (EndsAfterTuples(script) /\ Ended)
    => /\ RowVals(rows) = ExpectedFrom(rowType, script, 1)
       /\ input = Offset(script, Len(script))
       /\ state \in {"Incomplete", "None"}
       /\ pc = "finished" => (state = "Incomplete" /\ res = Incomplete)

\* finish() has reported Incomplete after two rows, the buffer ending with
\* `;` and a newline.
C29_Witness ==
    /\ EndsAfterTuples(script)
    /\ script[Len(script)].text = <<";", "\n">>
    /\ pc = "finished"
    /\ Len(rows) = 2
    /\ res = Incomplete

\* The same with a buffer that ends at the `)` of the last tuple.
C29_WitnessParen ==
    /\ EndsAfterTuples(script)
    /\ script[Len(script)].text = <<>>
    /\ sql[Len(sql)] = ")"
    /\ pc = "finished"
    /\ Len(rows) = 1
    /\ res = Incomplete

\* The index of the first `INSERT INTO` of the buffer.
FirstOccurrence == CHOOSE i \in 1..Len(sql) : IsOccurrence(i) /\ \A j \in 1..(i - 1) : ~IsOccurrence(j)

\* A statement head with a tuple of the row type right behind it starts at i.
StartsStatement(i) ==
    /\ PastInsert(sql, i) # 0
    /\ TupleAt(rowType, sql, PastInsert(sql, i))

\* The first `INSERT INTO` of the buffer does not start a statement.
FirstIsNoStatement ==
    /\ \E i \in 1..Len(sql) : IsOccurrence(i)
    /\ ~StartsStatement(FirstOccurrence)

\* C30: `INSERT INTO` is searched for once, at creation.  When its first
\* occurrence does not start a well-formed statement head with a tuple
\* right behind it, the iterator never yields a row, its cursor stays at
\* that occurrence, and its first next() ends the iteration, whatever
\* statements the buffer has further on.
C30_SearchedOnce ==
    [][(pc' \in {"iter", "finished", "panicked"} /\ FirstIsNoStatement)
       => /\ rows' = <<>>
          /\ input' = FirstOccurrence
          /\ (pc = "iter" /\ pc' = "iter") => state' # "Running"]_vars

\* The first occurrence is in a comment of the preamble and a statement
\* with a well-formed tuple comes after it: the iteration has ended there
\* without a row.
C30_Witness ==
    /\ pc = "iter" /\ state = "Done"
    /\ script[1].kind = "pre"
    /\ FirstIsNoStatement
    /\ input = FirstOccurrence
    /\ rows = <<>>
    /\ \E i \in (input + 1)..Len(sql) : IsOccurrence(i) /\ StartsStatement(i)
====
